---- MODULE Spec2Model ----
(***************************************************************************)
(* Model of nebulus_core.security: the SecretsManager (keyring backend and *)
(* Fernet-encrypted fallback file), at the granularity of one backend or   *)
(* filesystem call per step, for one or more callers.                      *)
(***************************************************************************)
EXTENDS Integers, Sequences, FiniteSets, TLC

\* ------------------------------------------------------------------ bounds
MaxInst == 2        \* SecretsManager objects that may be constructed
MaxCallers == 2     \* callers that may exist; Init activates some of them
MaxCalls == 4       \* public calls started in one behaviour
MaxFaults == 1      \* keyring calls that raise a backend I/O error
MaxKeys == 3        \* Fernet keys that may be generated
MaxEncrypts == 2    \* encrypt_value calls that return a ciphertext
MaxLines == 2       \* lines of a scanned file

Inst == 1..MaxInst
Callers == 1..MaxCallers

\* ----------------------------------------------------- program constants
SERVICE_NAME == "nebulus"
METADATA_KEY == "__metadata__"
TEST_KEY == "__test__"
MASTER_KEY_NAME == "nebulus_master_encryption_key"
MODE_0600 == 384
MODE_0700 == 448
\* mode of a file created by write_bytes / a directory before chmod: the
\* umask-reduced default of open(2), not owner-only
MODE_DEFAULT == 420

\* ----------------------------------------------------------- string values
\* A Python str (or None) held in a password slot, an argument or a return
\* value.  kind "str" is text that is not a JSON document, kind "json" is
\* the text json.dumps() gives for the list arr.
None == [kind |-> "None", s |-> "", arr |-> <<>>]
Str(t) == [kind |-> "str", s |-> t, arr |-> <<>>]
JsonText(a) == [kind |-> "json", s |-> "", arr |-> a]

\* Python truthiness of a str-or-None: None and "" are falsy.
Truthy(v) == v.kind = "json" \/ (v.kind = "str" /\ v.s # "")

\* keys and values callers pass in
CallerKeys == {"", "a", "b", METADATA_KEY}
CallerValues == {Str(""), Str("v1"), JsonText(<<"b">>)}

\* the keys a migration can store: lower-cased names of the config files
MigratedKeys == {"api_key", "db_password", "port"}

\* every name a password slot of the service can have in the model
SlotNames == (CallerKeys \ {""}) \cup {TEST_KEY, MASTER_KEY_NAME} \cup MigratedKeys

\* Python's str ordering on the names of the model (code point order)
KeyOrder == <<"", METADATA_KEY, TEST_KEY, "a", "api_key", "b", "db_password",
              MASTER_KEY_NAME, "port">>
Rank(k) == CHOOSE i \in 1..Len(KeyOrder) : KeyOrder[i] = k

RECURSIVE sorted(_)
sorted(S) ==
    IF S = {} THEN <<>>
    ELSE LET m == CHOOSE x \in S : \A y \in S : Rank(x) <= Rank(y)
         IN <<m>> \o sorted(S \ {m})

Range(f) == {f[i] : i \in DOMAIN f}

\* json.dumps of a list of str / json.loads of a str
json_dumps_list(l) == JsonText(l)
json_loads_ok(v) == v.kind = "json"
json_loads(v) == v.arr

\* ------------------------------------------------------------ Python dict
\* A dict[str, str] is a sequence of <<key, value>> pairs in insertion order.
DictKeys(d) == [i \in 1..Len(d) |-> d[i][1]]
DictHas(d, k) == \E i \in 1..Len(d) : d[i][1] = k
DictGet(d, k) ==
    IF DictHas(d, k) THEN d[CHOOSE i \in 1..Len(d) : d[i][1] = k][2] ELSE None
DictSet(d, k, v) ==
    IF DictHas(d, k)
    THEN [i \in 1..Len(d) |-> IF d[i][1] = k THEN <<k, v>> ELSE d[i]]
    ELSE Append(d, <<k, v>>)
DictDel(d, k) == SelectSeq(d, LAMBDA p : p[1] # k)

\* json.dumps(dict).encode() / json.loads(bytes.decode()): the JSON object text
json_dumps_dict(d) == [json |-> "object", members |-> d]
json_loads_dict(t) == t.members

\* ---------------------------------------------------------------- Fernet
\* bytes of a file: a Fernet token, raw (unencrypted) bytes, or damaged bytes
NoBytes == [kind |-> "empty", key |-> 0, pt |-> json_dumps_dict(<<>>)]
FernetEncrypt(key, plaintext) == [kind |-> "token", key |-> key, pt |-> plaintext]
FernetDecryptOk(key, bytes) == bytes.kind = "token" /\ bytes.key = key
FernetDecrypt(key, bytes) == bytes.pt
RawBytes(plaintext) == [kind |-> "raw", key |-> 0, pt |-> plaintext]
DamagedBytes(bytes) == [bytes EXCEPT !.kind = "damaged"]

\* ----------------------------------------------------------------- state
VARIABLES
    KEYRING_AVAILABLE,  \* module global: `import keyring` succeeded
    backend,            \* the keyring backend of the host: "ok" or "none"
    keyring,            \* passwords of service SERVICE_NAME, by slot name
    fs,                 \* the fallback directory: dir, key file, data file
    inst,               \* the SecretsManager objects
    active,             \* the callers that exist in this behaviour
    call,               \* per caller: the call in progress or last returned
    ncalls,             \* public calls started so far
    faults,             \* keyring I/O errors raised so far
    keygen,             \* Fernet keys generated so far
    reserved_used       \* history: store/delete was called with METADATA_KEY

VARIABLES
    em,                 \* the EncryptionManager objects
    ecall,              \* per caller: the EncryptionManager call in progress
    userfiles,          \* the files callers encrypt and decrypt, by path
    ivgen,              \* Fernet initialisation vectors drawn so far
    produced,           \* history: the ciphertexts encrypt_value returned
    master_deleted,     \* history: delete was called with MASTER_KEY_NAME
    tree,               \* the configuration files on disk, by path
    mcall,              \* the migration call in progress or last returned
    acall               \* the audit scan in progress or last returned

enc_vars == <<em, ecall, userfiles, ivgen, produced>>
mig_vars == <<tree, mcall, acall>>
ext_vars == <<enc_vars, mig_vars, master_deleted>>

vars == <<KEYRING_AVAILABLE, backend, keyring, fs, inst, active, call,
          ncalls, faults, keygen, reserved_used, ext_vars>>

NoFile == [exists |-> FALSE, bytes |-> NoBytes, mode |-> 0]
NoKeyFile == [exists |-> FALSE, bytes |-> 0, mode |-> 0]
EmptyDir == [dir |-> [exists |-> FALSE, mode |-> 0], key |-> NoKeyFile, data |-> NoFile]
EmptyKeyring == [n \in SlotNames |-> None]

\* a SecretsManager object: its fields _use_keyring and _cipher
NoInstance == [state |-> "absent", use_keyring |-> FALSE, cipher |-> 0]

\* what a call returned or raised
Pending == [kind |-> "pending", v |-> None, l |-> <<>>, b |-> FALSE, e |-> "", backend |-> ""]
Returned(v) == [Pending EXCEPT !.kind = "value", !.v = v]
ReturnedBool(b) == [Pending EXCEPT !.kind = "bool", !.b = b]
ReturnedList(l) == [Pending EXCEPT !.kind = "list", !.l = l]
ReturnedAudit(tag, l) == [Pending EXCEPT !.kind = "audit", !.l = l, !.backend = tag]
Raised(e) == [Pending EXCEPT !.kind = "raise", !.e = e]

IdleCall ==
    [pc |-> "idle", op |-> "none", inst |-> 1, key |-> "", value |-> None,
     force |-> "None", add |-> FALSE, data |-> <<>>, keys |-> {}, newkey |-> 0,
     ret |-> Pending, touched |-> {}, probe |-> "",
     pre |-> [keyring |-> EmptyKeyring, fs |-> EmptyDir]]

\* keyring.get_password(SERVICE_NAME, name) on a working backend
get_password(kr, name) == IF name \in DOMAIN kr THEN kr[name] ELSE None

\* --------------------------------------------------- SecretsManager, pure
\* _read_fallback_data with a decryption failure read as an empty store
read_fallback_data_lenient(m, files) ==
    IF ~files.data.exists \/ ~FernetDecryptOk(m.cipher, files.data.bytes)
    THEN [ok |-> TRUE, err |-> "", data |-> <<>>]
    ELSE [ok |-> TRUE, err |-> "",
          data |-> json_loads_dict(FernetDecrypt(m.cipher, files.data.bytes))]

\* _read_fallback_data: the decrypted dict, or the exception of decrypt
read_fallback_data(m, files) ==
    IF ~files.data.exists
    THEN [ok |-> TRUE, err |-> "", data |-> <<>>]
    ELSE IF FernetDecryptOk(m.cipher, files.data.bytes)
         THEN [ok |-> TRUE, err |-> "",
               data |-> json_loads_dict(FernetDecrypt(m.cipher, files.data.bytes))]
         ELSE [ok |-> FALSE, err |-> "InvalidToken", data |-> <<>>]

\* _write_fallback_data without the encrypt call
write_fallback_bytes_plain(m, data) == RawBytes(json_dumps_dict(data))

\* the bytes _write_fallback_data writes for a dict
write_fallback_bytes(m, data) == FernetEncrypt(m.cipher, json_dumps_dict(data))

\* _test_keyring with every exception read as "no keyring"
test_keyring_result_strict(outcome) == outcome = "returned"

\* _test_keyring: the probe's outcome is "returned", "NoKeyringError" or
\* "Exception" (any other exception)
test_keyring_result(outcome) ==
    CASE outcome = "returned" -> TRUE
      [] outcome = "NoKeyringError" -> FALSE
      [] OTHER -> TRUE

\* __init__ with the use_keyring argument dropped from the forced branch
forced_use_keyring_ignores_flag(force, available) == available

\* __init__: _use_keyring when use_keyring is passed (not None)
forced_use_keyring(force, available) == (force = "True") /\ available

\* __init__: whether the probe runs when use_keyring is None
probe_runs(force, available) == force = "None" /\ available

\* store_secret with the check of the value left out
store_rejects_key_only(key, value) == key = ""

\* store_secret: the argument check
store_rejects(key, value) == key = "" \/ ~Truthy(value)

\* _update_keyring_metadata without keys.discard
update_metadata_keys_no_discard(metadata, key, add) ==
    LET keys == IF Truthy(metadata) THEN Range(json_loads(metadata)) ELSE {}
    IN IF add THEN keys \cup {key} ELSE keys

\* _update_keyring_metadata: the key set written back for the index read
update_metadata_keys(metadata, key, add) ==
    LET keys == IF Truthy(metadata) THEN Range(json_loads(metadata)) ELSE {}
    IN IF add THEN keys \cup {key} ELSE keys \ {key}

\* _update_keyring_metadata: json.loads raises on the index read
update_metadata_raises(metadata) == Truthy(metadata) /\ ~json_loads_ok(metadata)

\* get_secret / list_secrets on a working backend, as a function of the state
get_secret_result(m, kr, files, key) ==
    IF m.use_keyring
    THEN Returned(get_password(kr, key))
    ELSE LET r == read_fallback_data(m, files)
         IN IF r.ok THEN Returned(DictGet(r.data, key)) ELSE Raised(r.err)

list_secrets_result(m, kr, files) ==
    IF m.use_keyring
    THEN LET metadata == get_password(kr, METADATA_KEY)
         IN IF Truthy(metadata)
            THEN IF json_loads_ok(metadata)
                 THEN ReturnedList(json_loads(metadata))
                 ELSE Raised("JSONDecodeError")
            ELSE ReturnedList(<<>>)
    ELSE LET r == read_fallback_data(m, files)
         IN IF r.ok THEN ReturnedList(DictKeys(r.data)) ELSE Raised(r.err)

audit_secrets_result(m, kr, files) ==
    LET keys == list_secrets_result(m, kr, files)
    IN IF keys.kind = "list"
       THEN ReturnedAudit(IF m.use_keyring THEN "keyring" ELSE "fallback", keys.l)
       ELSE keys

\* ------------------------------------------------ EncryptionManager values
\* the paths callers pass to encrypt_file / decrypt_file, the plaintexts
\* callers pass to encrypt_value and the content of the plaintext file
Paths == {"plain", "enc", "dec"}
Plaintexts == {"p1"}
FileText == "p2"

\* bytes of a value or of a user file: plaintext, a Fernet token (key, random
\* initialisation vector, plaintext) or a token modified after encryption
Plain(p) == [kind |-> "raw", key |-> 0, iv |-> 0, pt |-> p]
FernetToken(key, iv, p) == [kind |-> "token", key |-> key, iv |-> iv, pt |-> p]
Damaged(b) == [b EXCEPT !.kind = "damaged"]
NoUserFile == [exists |-> FALSE, bytes |-> Plain(""), mode |-> 0]

\* Fernet.generate_key().decode("utf-8"): the text of key number n
FernetKeyText(n) == [kind |-> "str", s |-> "fernet_key", arr |-> <<n>>]
IsFernetKeyText(v) == v.kind = "str" /\ v.s = "fernet_key"

\* an EncryptionManager object: its field _secrets
NoManager == [state |-> "absent", secrets |-> 1]

\* what an EncryptionManager call returned or raised
EPending == [kind |-> "pending", bytes |-> Plain(""), e |-> ""]
EReturned(b) == [EPending EXCEPT !.kind = "bytes", !.bytes = b]
EReturnedNone == [EPending EXCEPT !.kind = "none"]
ERaised(e) == [EPending EXCEPT !.kind = "raise", !.e = e]

IdleECall ==
    [pc |-> "idle", op |-> "none", em |-> 1, arg |-> Plain(""),
     inp |-> "plain", out |-> "enc", newkey |-> 0, data |-> Plain(""),
     ret |-> EPending, pre |-> [p \in Paths |-> NoUserFile]]

\* ------------------------------------------------- configuration files
\* A path is the sequence of its parts (Path.parts).  The tree of the model:
\* root/.env, root/.git/.env, root/.git/app.yml, root/sub/app.yml.
ROOT == <<"root">>
GIT_DIR == <<"root", ".git">>
SUB_DIR == <<"root", "sub">>
ENV_FILE == <<"root", ".env">>
GIT_ENV_FILE == <<"root", ".git", ".env">>
GIT_YML_FILE == <<"root", ".git", "app.yml">>
SUB_YML_FILE == <<"root", "sub", "app.yml">>
MISSING == <<"root", "missing">>
ConfigFiles == {ENV_FILE, GIT_ENV_FILE, GIT_YML_FILE, SUB_YML_FILE}
ConfigDirs == {ROOT, GIT_DIR, SUB_DIR}
PathArgs == ConfigFiles \cup ConfigDirs \cup {MISSING}

\* Path.name and Path.suffix (a name that is only a leading dot and letters,
\* such as ".env", has no suffix)
PathName(path) == path[Len(path)]
PathSuffix(path) ==
    CASE PathName(path) = "app.yml" -> ".yml"
      [] OTHER -> ""

\* a line of a configuration file: the name before the separator, the
\* separator and the raw text after it up to the end of the line
Line(key, sep, raw) == [key |-> key, sep |-> sep, raw |-> raw]
FileContent(lines) == [readable |-> TRUE, lines |-> lines]
\* a file whose bytes are not valid UTF-8: read_text raises UnicodeDecodeError
Undecodable == [readable |-> FALSE, lines |-> <<>>]

\* the first group of ENV_PATTERN, [A-Z_][A-Z0-9_]*, and of YAML_PATTERN, \w+
env_key_ok(key) == key \in {"API_KEY", "PORT", "DB_PASSWORD"}
yaml_key_ok(key) == key \in {"API_KEY", "PORT", "DB_PASSWORD", "api_key"}

\* the rest of both patterns, [ \t]*["']?([^"'\n]+)["']?[ \t]*$ on the raw
\* text: whether it matches and the text of the group
value_group(raw) ==
    CASE raw = "" -> [ok |-> FALSE, text |-> ""]
      [] raw = "'s3cret'" -> [ok |-> TRUE, text |-> "s3cret"]
      [] OTHER -> [ok |-> TRUE, text |-> raw]

\* str.strip() and str.lower() on the texts of the model
strip(text) == IF text = " " THEN "" ELSE text
lower(key) ==
    CASE key = "API_KEY" -> "api_key"
      [] key = "PORT" -> "port"
      [] key = "DB_PASSWORD" -> "db_password"
      [] OTHER -> key

\* is_secret_key with every key accepted
is_secret_key_any(key) == TRUE

\* is_secret_key: some SECRET_KEY_PATTERNS entry matches, case-insensitive
\* (api[_-]?key and password match; PORT matches none)
is_secret_key(key) == key \in {"API_KEY", "DB_PASSWORD", "api_key"}

\* ENV_PATTERN.findall(content) / YAML_PATTERN.findall(content): the
\* <<key, value>> pairs of the matching lines, in order
RECURSIVE findall(_, _)
findall(kind, lines) ==
    IF lines = <<>> THEN <<>>
    ELSE LET l == Head(lines)
             g == value_group(l.raw)
             hit == IF kind = "env"
                    THEN env_key_ok(l.key) /\ l.sep = "=" /\ g.ok
                    ELSE yaml_key_ok(l.key) /\ l.sep = ":" /\ g.ok
         IN (IF hit THEN <<(<<l.key, g.text>>)>> ELSE <<>>) \o findall(kind, Tail(lines))

\* the loop of extract_from_env_file / extract_from_yaml_file over the
\* matches, starting from the dict secrets
RECURSIVE extract_loop(_, _)
extract_loop(matches, secrets) ==
    IF matches = <<>> THEN secrets
    ELSE LET key == Head(matches)[1]
             value == strip(Head(matches)[2])
         IN extract_loop(Tail(matches),
                IF is_secret_key(key) /\ value # ""
                THEN DictSet(secrets, lower(key), Str(value))
                ELSE secrets)

extract_from_env_file(content) == extract_loop(findall("env", content.lines), <<>>)
extract_from_yaml_file(content) == extract_loop(findall("yaml", content.lines), <<>>)

\* dict.update
RECURSIVE DictUpdate(_, _)
DictUpdate(d, other) ==
    IF other = <<>> THEN d
    ELSE DictUpdate(DictSet(d, Head(other)[1], Head(other)[2]), Tail(other))

\* migrate_from_file: the extractor chosen by the suffix and name of the file
extract_secrets(path, content) ==
    IF PathSuffix(path) \in {".env"} \/ PathName(path) = ".env"
    THEN extract_from_env_file(content)
    ELSE IF PathSuffix(path) \in {".yml", ".yaml"}
    THEN extract_from_yaml_file(content)
    ELSE DictUpdate(DictUpdate(<<>>, extract_from_env_file(content)),
                    extract_from_yaml_file(content))

\* Path.glob: whether a file name matches a pattern of migrate_from_directory
\* (without its "**/" prefix)
DirPatterns == <<".env*", "*.env", "*.yml", "*.yaml">>
name_matches(pattern, name) ==
    CASE pattern = ".env*" -> name = ".env"
      [] pattern = "*.env" -> name = ".env"
      [] pattern = "*.yml" -> name = "app.yml"
      [] OTHER -> FALSE

IsUnder(path, root) ==
    Len(path) > Len(root) /\ SubSeq(path, 1, Len(root)) = root

\* an enumeration of a set of paths: the order in which the filesystem
\* lists them
RECURSIVE SetToSeq(_)
SetToSeq(S) ==
    IF S = {} THEN <<>>
    ELSE LET x == CHOOSE y \in S : \A z \in S : Len(y) <= Len(z)
         IN <<x>> \o SetToSeq(S \ {x})

\* root_path.glob(pattern) for each pattern in turn: every file below the
\* root (directly below it when not recursive) whose name matches
RECURSIVE glob_all(_, _, _)
glob_all(root, recursive, patterns) ==
    IF patterns = <<>> THEN <<>>
    ELSE SetToSeq({f \in ConfigFiles :
                      /\ IsUnder(f, root)
                      /\ recursive \/ Len(f) = Len(root) + 1
                      /\ name_matches(Head(patterns), PathName(f))})
            \o glob_all(root, recursive, Tail(patterns))

\* migrate_from_directory: any(skip_dir in file_path.parts ...)
skip_dirs == {".git", "__pycache__", "node_modules", ".venv", "venv"}
in_skip_dir(path) == \E n \in 1..Len(path) : path[n] \in skip_dirs

\* what migrate_secrets returned or raised
MPending == [kind |-> "pending", secrets_found |-> 0, secrets_migrated |-> 0,
             errors |-> <<>>, source_files |-> <<>>, e |-> ""]
MigrationResult(found, migrated, errors, sources) ==
    [MPending EXCEPT !.kind = "result", !.secrets_found = found,
                     !.secrets_migrated = migrated, !.errors = errors,
                     !.source_files = sources]
MRaised(e) == [MPending EXCEPT !.kind = "raise", !.e = e]

NoTree == <<>>
\* the previous migrate_secrets call, kept when the call that follows it
\* migrates the same path over an unchanged store
NoPrev == [valid |-> FALSE, ret |-> MPending, faulted |-> FALSE]
IdleMCall ==
    [pc |-> "idle", inst |-> 1, path |-> <<>>, recursive |-> FALSE, isdir |-> FALSE,
     queue |-> <<>>, processed |-> {}, handled |-> <<>>, secrets |-> <<>>,
     pending |-> <<>>, attempted |-> <<>>, migrated |-> 0, errors |-> <<>>,
     total_found |-> 0, total_migrated |-> 0, all_errors |-> <<>>,
     source_files |-> <<>>, file_counts |-> <<>>, ret |-> MPending, faulted |-> FALSE,
     pre |-> [keyring |-> EmptyKeyring, fs |-> EmptyDir],
     post |-> [keyring |-> EmptyKeyring, fs |-> EmptyDir], prev |-> NoPrev]
IdleACall == [pc |-> "idle", path |-> <<>>, recursive |-> FALSE, scanned |-> {},
              findings |-> <<>>, e |-> ""]

\* ------------------------------------------------------------------- Init
\* no EncryptionManager, no user file, no migration, no scan
InitExt ==
    /\ em = [e \in Inst |-> NoManager]
    /\ ecall = [c \in Callers |-> IdleECall]
    /\ userfiles = [p \in Paths |-> NoUserFile]
    /\ ivgen = 0
    /\ produced = <<>>
    /\ master_deleted = FALSE
    /\ tree = NoTree
    /\ mcall = IdleMCall
    /\ acall = IdleACall

\* the SecretsManager part of the initial state: nothing constructed yet
InitSecrets ==
    /\ KEYRING_AVAILABLE \in BOOLEAN
    /\ backend \in {"ok", "none"}
    /\ keyring = EmptyKeyring
    /\ fs = EmptyDir
    /\ inst = [i \in Inst |-> NoInstance]
    /\ active = {1}
    /\ call = [c \in Callers |-> IdleCall]
    /\ ncalls = 0
    /\ faults = 0
    /\ keygen = 0
    /\ reserved_used = FALSE

Init == InitSecrets /\ InitExt

\* ------------------------------------------------------- call bookkeeping
NoOtherCall(c) == ecall[c].pc = "idle" /\ mcall.pc = "idle" /\ acall.pc = "idle"
CanCall(c) == c \in active /\ call[c].pc = "idle" /\ NoOtherCall(c) /\ ncalls < MaxCalls

Enter(op, i, k, v, force, pc) ==
    [IdleCall EXCEPT !.op = op, !.inst = i, !.key = k, !.value = v,
                     !.force = force, !.pc = pc,
                     !.pre = [keyring |-> keyring, fs |-> fs]]

Return(cr, ret) == [cr EXCEPT !.pc = "idle", !.ret = ret]
Touch(cr, what) == [cr EXCEPT !.touched = @ \cup {what}]

\* the value a finished call returns to its caller, by operation
ReturnOf(cr) ==
    CASE cr.op = "store" -> Returned(None)
      [] cr.op = "delete" -> ReturnedBool(TRUE)
      [] OTHER -> Returned(None)

\* ------------------------------------------------------------ __init__
\* SecretsManager(use_keyring=force): the backend decision up to the first
\* backend or filesystem call.  Objects are numbered in order of construction.
construct(c, i, force) ==
    /\ CanCall(c)
    /\ inst[i].state = "absent"
    /\ \A j \in Inst : j < i => inst[j].state # "absent"
    /\ ncalls' = ncalls + 1
    /\ IF probe_runs(force, KEYRING_AVAILABLE)
       THEN /\ call' = [call EXCEPT ![c] = Enter("construct", i, "", None, force, "test_keyring")]
            /\ inst' = [inst EXCEPT ![i] = [NoInstance EXCEPT !.state = "constructing"]]
       ELSE LET use == forced_use_keyring(force, KEYRING_AVAILABLE)
            IN IF use
               THEN /\ call' = [call EXCEPT ![c] =
                          Return(Enter("construct", i, "", None, force, "idle"), Returned(None))]
                    /\ inst' = [inst EXCEPT ![i] = [NoInstance EXCEPT !.state = "ready", !.use_keyring = TRUE]]
               ELSE /\ call' = [call EXCEPT ![c] = Enter("construct", i, "", None, force, "mkdir")]
                    /\ inst' = [inst EXCEPT ![i] = [NoInstance EXCEPT !.state = "constructing"]]
    /\ UNCHANGED <<ext_vars, reserved_used, KEYRING_AVAILABLE, backend, keyring, fs, active, faults, keygen>>

\* _test_keyring: one get_password of TEST_KEY; NoKeyringError selects the
\* fallback, a return or any other exception selects the keyring
test_keyring(c) ==
    /\ call[c].pc = "test_keyring"
    /\ \E outcome \in {"returned", "NoKeyringError", "Exception"} :
         /\ outcome = "NoKeyringError" <=> backend = "none"
         /\ outcome = "Exception" => faults < MaxFaults
         /\ faults' = IF outcome = "Exception" THEN faults + 1 ELSE faults
         /\ LET i == call[c].inst
                cr == [Touch(call[c], "keyring") EXCEPT !.probe = outcome]
            IN IF test_keyring_result(outcome)
               THEN /\ inst' = [inst EXCEPT ![i].state = "ready", ![i].use_keyring = TRUE]
                    /\ call' = [call EXCEPT ![c] = Return(cr, Returned(None))]
               ELSE /\ inst' = [inst EXCEPT ![i].use_keyring = FALSE]
                    /\ call' = [call EXCEPT ![c] = [cr EXCEPT !.pc = "mkdir"]]
    /\ UNCHANGED <<ext_vars, reserved_used, KEYRING_AVAILABLE, backend, keyring, fs, active, ncalls, keygen>>

\* ------------------------------------------------------- _init_fallback
\* FALLBACK_DIR.mkdir(parents=True, exist_ok=True, mode=0o700)
init_fallback_mkdir(c) ==
    /\ call[c].pc = "mkdir"
    /\ fs' = IF fs.dir.exists THEN fs
             ELSE [fs EXCEPT !.dir = [exists |-> TRUE, mode |-> MODE_0700]]
    /\ call' = [call EXCEPT ![c] = [Touch(@, "fs") EXCEPT !.pc = "key_exists"]]
    /\ UNCHANGED <<ext_vars, reserved_used, KEYRING_AVAILABLE, backend, keyring, inst, active, ncalls, faults, keygen>>

\* _init_fallback generating a key whether or not the key file exists
init_fallback_key_exists_regenerate(c) ==
    /\ call[c].pc = "key_exists"
    /\ keygen < MaxKeys
    /\ keygen' = keygen + 1
    /\ call' = [call EXCEPT ![c] =
          [Touch(@, "fs") EXCEPT !.pc = "key_write", !.newkey = keygen + 1]]
    /\ UNCHANGED <<ext_vars, reserved_used, KEYRING_AVAILABLE, backend, keyring, fs, inst, active, ncalls, faults>>

\* if not FALLBACK_KEY_FILE.exists(): key = Fernet.generate_key()
init_fallback_key_exists(c) ==
    /\ call[c].pc = "key_exists"
    /\ IF fs.key.exists
       THEN /\ call' = [call EXCEPT ![c] = [Touch(@, "fs") EXCEPT !.pc = "key_read"]]
            /\ UNCHANGED keygen
       ELSE /\ keygen < MaxKeys
            /\ keygen' = keygen + 1
            /\ call' = [call EXCEPT ![c] =
                  [Touch(@, "fs") EXCEPT !.pc = "key_write", !.newkey = keygen + 1]]
    /\ UNCHANGED <<ext_vars, reserved_used, KEYRING_AVAILABLE, backend, keyring, fs, inst, active, ncalls, faults>>

\* FALLBACK_KEY_FILE.write_bytes(key)
init_fallback_key_write(c) ==
    /\ call[c].pc = "key_write"
    /\ fs' = [fs EXCEPT !.key = [exists |-> TRUE, bytes |-> call[c].newkey,
                                 mode |-> IF fs.key.exists THEN fs.key.mode ELSE MODE_DEFAULT]]
    /\ call' = [call EXCEPT ![c] = [Touch(@, "fs") EXCEPT !.pc = "key_chmod"]]
    /\ UNCHANGED <<ext_vars, reserved_used, KEYRING_AVAILABLE, backend, keyring, inst, active, ncalls, faults, keygen>>

\* FALLBACK_KEY_FILE.chmod(0o600); self._cipher = Fernet(key)
init_fallback_key_chmod(c) ==
    /\ call[c].pc = "key_chmod"
    /\ fs' = [fs EXCEPT !.key.mode = MODE_0600]
    /\ inst' = [inst EXCEPT ![call[c].inst].cipher = call[c].newkey]
    /\ call' = [call EXCEPT ![c] = [Touch(@, "fs") EXCEPT !.pc = "data_exists"]]
    /\ UNCHANGED <<ext_vars, reserved_used, KEYRING_AVAILABLE, backend, keyring, active, ncalls, faults, keygen>>

\* key = FALLBACK_KEY_FILE.read_bytes(); self._cipher = Fernet(key)
init_fallback_key_read(c) ==
    /\ call[c].pc = "key_read"
    /\ inst' = [inst EXCEPT ![call[c].inst].cipher = fs.key.bytes]
    /\ call' = [call EXCEPT ![c] = [Touch(@, "fs") EXCEPT !.pc = "data_exists", !.newkey = fs.key.bytes]]
    /\ UNCHANGED <<ext_vars, reserved_used, KEYRING_AVAILABLE, backend, keyring, fs, active, ncalls, faults, keygen>>

\* if not FALLBACK_DATA_FILE.exists(): self._write_fallback_data({})
init_fallback_data_exists(c) ==
    /\ call[c].pc = "data_exists"
    /\ IF fs.data.exists
       THEN /\ inst' = [inst EXCEPT ![call[c].inst].state = "ready"]
            /\ call' = [call EXCEPT ![c] = Return(Touch(@, "fs"), Returned(None))]
       ELSE /\ call' = [call EXCEPT ![c] = [Touch(@, "fs") EXCEPT !.pc = "write_bytes", !.data = <<>>]]
            /\ UNCHANGED inst
    /\ UNCHANGED <<ext_vars, reserved_used, KEYRING_AVAILABLE, backend, keyring, fs, active, ncalls, faults, keygen>>

\* store_secret under a lock held from its read to its write: the dict
\* written is the file's content at the moment of the write plus the pair
written_data_locked(m, files, cr) ==
    IF cr.op = "store"
    THEN DictSet(read_fallback_data(m, files).data, cr.key, cr.value)
    ELSE cr.data

\* the dict a caller passes to _write_fallback_data: the one it read earlier
\* and changed in memory; nothing is read again and no lock is held
written_data(m, files, cr) == cr.data

\* ------------------------------------------------- _write_fallback_data
\* FALLBACK_DATA_FILE.write_bytes(self._cipher.encrypt(json.dumps(data)))
write_fallback_data_write(c) ==
    /\ call[c].pc = "write_bytes"
    /\ fs' = [fs EXCEPT !.data = [exists |-> TRUE,
                                  bytes |-> write_fallback_bytes(inst[call[c].inst],
                                                written_data(inst[call[c].inst], fs, call[c])),
                                  mode |-> IF fs.data.exists THEN fs.data.mode ELSE MODE_DEFAULT]]
    /\ call' = [call EXCEPT ![c] = [Touch(@, "fs") EXCEPT !.pc = "chmod"]]
    /\ UNCHANGED <<ext_vars, reserved_used, KEYRING_AVAILABLE, backend, keyring, inst, active, ncalls, faults, keygen>>

\* FALLBACK_DATA_FILE.chmod(0o600), and the return of the caller of
\* _write_fallback_data (store_secret, delete_secret or __init__)
write_fallback_data_chmod(c) ==
    /\ call[c].pc = "chmod"
    /\ fs' = [fs EXCEPT !.data.mode = MODE_0600]
    /\ inst' = IF call[c].op = "construct"
               THEN [inst EXCEPT ![call[c].inst].state = "ready"]
               ELSE inst
    /\ call' = [call EXCEPT ![c] = Return(Touch(@, "fs"), ReturnOf(@))]
    /\ UNCHANGED <<ext_vars, reserved_used, KEYRING_AVAILABLE, backend, keyring, active, ncalls, faults, keygen>>

\* ------------------------------------------------------ public operations
Ready(i) == inst[i].state = "ready"
FirstPc(i, krpc) == IF inst[i].use_keyring THEN krpc ELSE "read_fallback_data"

\* store_secret(key, value): the argument check and the backend dispatch
store_secret(c, i, k, v) ==
    /\ CanCall(c)
    /\ Ready(i)
    /\ ncalls' = ncalls + 1
    /\ call' = [call EXCEPT ![c] =
          IF store_rejects(k, v)
          THEN Return(Enter("store", i, k, v, "None", "idle"), Raised("ValueError"))
          ELSE Enter("store", i, k, v, "None", FirstPc(i, "set_password"))]
    /\ reserved_used' = (reserved_used \/ k = METADATA_KEY)
    /\ UNCHANGED <<ext_vars, KEYRING_AVAILABLE, backend, keyring, fs, inst, active, faults, keygen>>

\* get_secret(key)
get_secret(c, i, k) ==
    /\ CanCall(c)
    /\ Ready(i)
    /\ ncalls' = ncalls + 1
    /\ call' = [call EXCEPT ![c] = Enter("get", i, k, None, "None", FirstPc(i, "get_password"))]
    /\ UNCHANGED <<ext_vars, reserved_used, KEYRING_AVAILABLE, backend, keyring, fs, inst, active, faults, keygen>>

\* delete_secret(key)
delete_secret(c, i, k) ==
    /\ CanCall(c)
    /\ Ready(i)
    /\ ncalls' = ncalls + 1
    /\ call' = [call EXCEPT ![c] = Enter("delete", i, k, None, "None", FirstPc(i, "delete_password"))]
    /\ reserved_used' = (reserved_used \/ k = METADATA_KEY)
    /\ master_deleted' = (master_deleted \/ k = MASTER_KEY_NAME)
    /\ UNCHANGED <<enc_vars, mig_vars, KEYRING_AVAILABLE, backend, keyring, fs, inst, active, faults, keygen>>

\* list_secrets()
list_secrets(c, i) ==
    /\ CanCall(c)
    /\ Ready(i)
    /\ ncalls' = ncalls + 1
    /\ call' = [call EXCEPT ![c] = Enter("list", i, "", None, "None", FirstPc(i, "list_get"))]
    /\ UNCHANGED <<ext_vars, reserved_used, KEYRING_AVAILABLE, backend, keyring, fs, inst, active, faults, keygen>>

\* audit_secrets(): list_secrets() plus the backend tag
audit_secrets(c, i) ==
    /\ CanCall(c)
    /\ Ready(i)
    /\ ncalls' = ncalls + 1
    /\ call' = [call EXCEPT ![c] = Enter("audit", i, "", None, "None", FirstPc(i, "list_get"))]
    /\ UNCHANGED <<ext_vars, reserved_used, KEYRING_AVAILABLE, backend, keyring, fs, inst, active, faults, keygen>>

\* ------------------------------------------------------ keyring-mode steps
KeyringPcs == {"set_password", "get_password", "delete_password",
               "list_get", "metadata_get", "metadata_set"}

\* store_secret: keyring.set_password(SERVICE_NAME, key, value)
keyring_set_password(c) ==
    /\ call[c].pc = "set_password"
    /\ backend = "ok"
    /\ keyring' = [keyring EXCEPT ![call[c].key] = call[c].value]
    /\ call' = [call EXCEPT ![c] = [Touch(@, "keyring") EXCEPT !.pc = "metadata_get", !.add = TRUE]]
    /\ UNCHANGED <<ext_vars, reserved_used, KEYRING_AVAILABLE, backend, fs, inst, active, ncalls, faults, keygen>>

\* get_secret: return keyring.get_password(SERVICE_NAME, key)
keyring_get_password(c) ==
    /\ call[c].pc = "get_password"
    /\ backend = "ok"
    /\ call' = [call EXCEPT ![c] =
          Return(Touch(@, "keyring"), get_secret_result(inst[@.inst], keyring, fs, @.key))]
    /\ UNCHANGED <<ext_vars, reserved_used, KEYRING_AVAILABLE, backend, keyring, fs, inst, active, ncalls, faults, keygen>>

\* delete_secret: keyring.delete_password(SERVICE_NAME, key); a missing
\* password raises PasswordDeleteError, which delete_secret turns into False
keyring_delete_password(c) ==
    /\ call[c].pc = "delete_password"
    /\ backend = "ok"
    /\ IF get_password(keyring, call[c].key) = None
       THEN /\ call' = [call EXCEPT ![c] = Return(Touch(@, "keyring"), ReturnedBool(FALSE))]
            /\ UNCHANGED keyring
       ELSE /\ keyring' = [keyring EXCEPT ![call[c].key] = None]
            /\ call' = [call EXCEPT ![c] =
                  [Touch(@, "keyring") EXCEPT !.pc = "metadata_get", !.add = FALSE]]
    /\ UNCHANGED <<ext_vars, reserved_used, KEYRING_AVAILABLE, backend, fs, inst, active, ncalls, faults, keygen>>

\* list_secrets / audit_secrets: get_password of the index and json.loads
keyring_list(c) ==
    /\ call[c].pc = "list_get"
    /\ backend = "ok"
    /\ call' = [call EXCEPT ![c] =
          Return(Touch(@, "keyring"),
                 IF @.op = "audit"
                 THEN audit_secrets_result(inst[@.inst], keyring, fs)
                 ELSE list_secrets_result(inst[@.inst], keyring, fs))]
    /\ UNCHANGED <<ext_vars, reserved_used, KEYRING_AVAILABLE, backend, keyring, fs, inst, active, ncalls, faults, keygen>>

\* _update_keyring_metadata: the guard, the read of the index, json.loads and
\* keys.add / keys.discard
update_keyring_metadata_read(c) ==
    /\ call[c].pc = "metadata_get"
    /\ IF ~KEYRING_AVAILABLE \/ ~inst[call[c].inst].use_keyring
       THEN call' = [call EXCEPT ![c] = Return(@, ReturnOf(@))]
       ELSE /\ backend = "ok"
            /\ LET metadata == get_password(keyring, METADATA_KEY)
               IN IF update_metadata_raises(metadata)
                  THEN call' = [call EXCEPT ![c] = Return(Touch(@, "keyring"), Raised("JSONDecodeError"))]
                  ELSE call' = [call EXCEPT ![c] =
                          [Touch(@, "keyring") EXCEPT
                              !.pc = "metadata_set",
                              !.keys = update_metadata_keys(metadata, call[c].key, call[c].add)]]
    /\ UNCHANGED <<ext_vars, reserved_used, KEYRING_AVAILABLE, backend, keyring, fs, inst, active, ncalls, faults, keygen>>

\* _update_keyring_metadata: set_password of the index, json.dumps(sorted(keys))
update_keyring_metadata_write(c) ==
    /\ call[c].pc = "metadata_set"
    /\ backend = "ok"
    /\ keyring' = [keyring EXCEPT ![METADATA_KEY] = json_dumps_list(sorted(call[c].keys))]
    /\ call' = [call EXCEPT ![c] = Return(Touch(@, "keyring"), ReturnOf(@))]
    /\ UNCHANGED <<ext_vars, reserved_used, KEYRING_AVAILABLE, backend, fs, inst, active, ncalls, faults, keygen>>

\* a keyring error answered by switching the instance to the fallback file
keyring_raises_failover(c) ==
    /\ call[c].pc \in KeyringPcs
    /\ backend = "none" \/ faults < MaxFaults
    /\ faults' = IF backend = "ok" THEN faults + 1 ELSE faults
    /\ inst' = [inst EXCEPT ![call[c].inst].use_keyring = FALSE]
    /\ call' = [call EXCEPT ![c] = [Touch(@, "keyring") EXCEPT !.pc = "read_fallback_data"]]
    /\ UNCHANGED <<ext_vars, reserved_used, KEYRING_AVAILABLE, backend, keyring, fs, active, ncalls, keygen>>

\* a keyring call raises: NoKeyringError when the host has no backend, else a
\* backend I/O error; the exception leaves the public call unhandled
keyring_raises(c) ==
    /\ call[c].pc \in KeyringPcs
    /\ \/ /\ backend = "none"
          /\ call' = [call EXCEPT ![c] = Return(Touch(@, "keyring"), Raised("NoKeyringError"))]
          /\ UNCHANGED faults
       \/ /\ backend = "ok"
          /\ faults < MaxFaults
          /\ faults' = faults + 1
          /\ call' = [call EXCEPT ![c] = Return(Touch(@, "keyring"), Raised("KeyringError"))]
    /\ UNCHANGED <<ext_vars, reserved_used, KEYRING_AVAILABLE, backend, keyring, fs, inst, active, ncalls, keygen>>

\* ----------------------------------------------------- fallback-mode steps
\* data = self._read_fallback_data() and what each operation does with it up
\* to its next filesystem call
fallback_read(c) ==
    /\ call[c].pc = "read_fallback_data"
    /\ LET cr == Touch(call[c], "fs")
           m == inst[cr.inst]
           r == read_fallback_data(m, fs)
       IN call' = [call EXCEPT ![c] =
            IF ~r.ok THEN Return(cr, Raised(r.err))
            ELSE CASE cr.op = "get" -> Return(cr, get_secret_result(m, keyring, fs, cr.key))
                   [] cr.op = "list" -> Return(cr, list_secrets_result(m, keyring, fs))
                   [] cr.op = "audit" -> Return(cr, audit_secrets_result(m, keyring, fs))
                   [] cr.op = "store" ->
                        [cr EXCEPT !.pc = "write_bytes", !.data = DictSet(r.data, cr.key, cr.value)]
                   [] OTHER ->
                        IF DictHas(r.data, cr.key)
                        THEN [cr EXCEPT !.pc = "write_bytes", !.data = DictDel(r.data, cr.key)]
                        ELSE Return(cr, ReturnedBool(FALSE))]
    /\ UNCHANGED <<ext_vars, reserved_used, KEYRING_AVAILABLE, backend, keyring, fs, inst, active, ncalls, faults, keygen>>


\* ================================================== EncryptionManager
\* self._secrets.get_secret(key) as one step of its caller: the result on a
\* working backend, or the exception the keyring call raises
secrets_get(m, key, fault) ==
    IF m.use_keyring /\ backend = "none" THEN Raised("NoKeyringError")
    ELSE IF m.use_keyring /\ fault THEN Raised("KeyringError")
    ELSE get_secret_result(m, keyring, fs, key)

\* self._secrets.store_secret(key, value) as one step of its caller: what it
\* returns or raises and the keyring and fallback files it leaves.  fault
\* names the keyring call that raises: "none", "set_password" or "metadata".
store_secret_effect(m, kr, files, key, value, fault) ==
    IF store_rejects(key, value)
    THEN [ret |-> Raised("ValueError"), keyring |-> kr, fs |-> files]
    ELSE IF m.use_keyring
    THEN IF backend = "none"
         THEN [ret |-> Raised("NoKeyringError"), keyring |-> kr, fs |-> files]
         ELSE IF fault = "set_password"
         THEN [ret |-> Raised("KeyringError"), keyring |-> kr, fs |-> files]
         ELSE LET kr1 == [kr EXCEPT ![key] = value]
                  metadata == get_password(kr1, METADATA_KEY)
              IN IF fault = "metadata"
                 THEN [ret |-> Raised("KeyringError"), keyring |-> kr1, fs |-> files]
                 ELSE IF update_metadata_raises(metadata)
                 THEN [ret |-> Raised("JSONDecodeError"), keyring |-> kr1, fs |-> files]
                 ELSE [ret |-> Returned(None),
                       keyring |-> [kr1 EXCEPT ![METADATA_KEY] =
                           json_dumps_list(sorted(update_metadata_keys(metadata, key, TRUE)))],
                       fs |-> files]
    ELSE LET r == read_fallback_data(m, files)
         IN IF ~r.ok
            THEN [ret |-> Raised(r.err), keyring |-> kr, fs |-> files]
            ELSE [ret |-> Returned(None), keyring |-> kr,
                  fs |-> [files EXCEPT !.data =
                      [exists |-> TRUE,
                       bytes |-> write_fallback_bytes(m, DictSet(r.data, key, value)),
                       mode |-> MODE_0600]]]

\* the keyring faults a one-step store or get may meet
CanFault(m) == m.use_keyring /\ backend = "ok" /\ faults < MaxFaults
StoreFaults(m) == IF CanFault(m) THEN {"none", "set_password", "metadata"} ELSE {"none"}
GetFaults(m) == IF CanFault(m) THEN {FALSE, TRUE} ELSE {FALSE}

\* _ensure_master_key generating a key whatever get_secret returned
ensure_master_key_generates_always(v) == TRUE

\* _ensure_master_key: a key is generated when get_secret returned None
ensure_master_key_generates(v) == v = None

\* Fernet.encrypt with the initialisation vector left constant
cipher_encrypt_fixed_iv(key, iv, p) == FernetToken(key, 0, p)

\* Fernet(key).encrypt(p): a token under key with a fresh random iv
cipher_encrypt(key, iv, p) == FernetToken(key, iv, p)

\* Fernet.decrypt without the check of the signature
cipher_decrypt_ok_unchecked(key, ct) == ct.kind # "raw"

\* Fernet(key).decrypt(ct) verifies the token: InvalidToken unless ct is an
\* unmodified token made under key
cipher_decrypt_ok(key, ct) == ct.kind = "token" /\ ct.key = key

\* _get_cipher: r is what get_secret(MASTER_KEY_NAME) returned or raised
get_cipher(r) ==
    IF r.kind = "raise" THEN [ok |-> FALSE, err |-> r.e, key |-> 0]
    ELSE IF r.v = None THEN [ok |-> FALSE, err |-> "RuntimeError", key |-> 0]
    ELSE IF ~IsFernetKeyText(r.v) THEN [ok |-> FALSE, err |-> "ValueError", key |-> 0]
    ELSE [ok |-> TRUE, err |-> "", key |-> r.v.arr[1]]

\* encrypt_value(plaintext) given the result of get_secret and the iv drawn
encrypt_value_result(r, iv, p) ==
    LET cipher == get_cipher(r)
    IN IF cipher.ok THEN EReturned(cipher_encrypt(cipher.key, iv, p))
       ELSE ERaised(cipher.err)

\* decrypt_value(ciphertext) given the result of get_secret
decrypt_value_result(r, ct) ==
    LET cipher == get_cipher(r)
    IN IF ~cipher.ok THEN ERaised(cipher.err)
       ELSE IF cipher_decrypt_ok(cipher.key, ct) THEN EReturned(Plain(ct.pt))
       ELSE ERaised("InvalidToken")

ECanCall(c) == c \in active /\ call[c].pc = "idle" /\ NoOtherCall(c)
EEnter(op, e, arg, inp, out, pc) ==
    [IdleECall EXCEPT !.op = op, !.em = e, !.arg = arg, !.inp = inp, !.out = out,
                      !.pc = pc, !.pre = userfiles]
EReturn(cr, ret) == [cr EXCEPT !.pc = "idle", !.ret = ret]
EmReady(e) == em[e].state = "ready"
StoreOf(e) == inst[em[e].secrets]

\* EncryptionManager(secrets_manager): _ensure_master_key up to and including
\* get_secret(MASTER_KEY_NAME) and Fernet.generate_key().  Objects are
\* numbered in order of construction.
EncryptionManager_init(c, e, i) ==
    /\ ECanCall(c)
    /\ Ready(i)
    /\ em[e].state = "absent"
    /\ \A j \in Inst : j < e => em[j].state # "absent"
    /\ \E fault \in GetFaults(inst[i]) :
         LET r == secrets_get(inst[i], MASTER_KEY_NAME, fault)
             cr == EEnter("construct", e, Plain(""), "plain", "enc", "idle")
         IN /\ faults' = IF fault THEN faults + 1 ELSE faults
            /\ IF r.kind = "raise"
               THEN /\ ecall' = [ecall EXCEPT ![c] = EReturn(cr, ERaised(r.e))]
                    /\ UNCHANGED <<em, keygen>>
               ELSE IF ensure_master_key_generates(r.v)
               THEN /\ keygen < MaxKeys
                    /\ keygen' = keygen + 1
                    /\ em' = [em EXCEPT ![e] = [state |-> "constructing", secrets |-> i]]
                    /\ ecall' = [ecall EXCEPT ![c] =
                          [cr EXCEPT !.pc = "ensure_store", !.newkey = keygen + 1]]
               ELSE /\ em' = [em EXCEPT ![e] = [state |-> "ready", secrets |-> i]]
                    /\ ecall' = [ecall EXCEPT ![c] = EReturn(cr, EReturnedNone)]
                    /\ UNCHANGED keygen
    /\ UNCHANGED <<KEYRING_AVAILABLE, backend, keyring, fs, inst, active, call, ncalls,
                   reserved_used, userfiles, ivgen, produced, master_deleted, mig_vars>>

\* _ensure_master_key storing its key only if the store still holds none:
\* a master key that is already there is written back unchanged
master_key_stored_if_absent(m, kr, files, newkey) ==
    LET r == get_secret_result(m, kr, files, MASTER_KEY_NAME)
    IN IF r.kind = "value" /\ r.v # None THEN r.v ELSE FernetKeyText(newkey)

\* _ensure_master_key: the key generated after get_secret returned None is
\* stored without looking at the store again
master_key_stored(m, kr, files, newkey) == FernetKeyText(newkey)

\* _ensure_master_key: self._secrets.store_secret(MASTER_KEY_NAME, master_key)
ensure_master_key_store(c) ==
    /\ ecall[c].pc = "ensure_store"
    /\ LET e == ecall[c].em
           m == StoreOf(e)
       IN \E fault \in StoreFaults(m) :
            LET eff == store_secret_effect(m, keyring, fs, MASTER_KEY_NAME,
                                           master_key_stored(m, keyring, fs, ecall[c].newkey),
                                           fault)
            IN /\ faults' = IF fault # "none" THEN faults + 1 ELSE faults
               /\ keyring' = eff.keyring
               /\ fs' = eff.fs
               /\ IF eff.ret.kind = "raise"
                  THEN /\ em' = [em EXCEPT ![e] = NoManager]
                       /\ ecall' = [ecall EXCEPT ![c] = EReturn(@, ERaised(eff.ret.e))]
                  ELSE /\ em' = [em EXCEPT ![e].state = "ready"]
                       /\ ecall' = [ecall EXCEPT ![c] = EReturn(@, EReturnedNone)]
    /\ UNCHANGED <<KEYRING_AVAILABLE, backend, inst, active, call, ncalls, keygen,
                   reserved_used, userfiles, ivgen, produced, master_deleted, mig_vars>>

\* encrypt_value(plaintext): _get_cipher (one get_secret) and cipher.encrypt
encrypt_value(c, e, p) ==
    /\ ECanCall(c)
    /\ EmReady(e)
    /\ ivgen < MaxEncrypts
    /\ \E fault \in GetFaults(StoreOf(e)) :
         LET r == secrets_get(StoreOf(e), MASTER_KEY_NAME, fault)
             res == encrypt_value_result(r, ivgen + 1, p)
         IN /\ faults' = IF fault THEN faults + 1 ELSE faults
            /\ ecall' = [ecall EXCEPT ![c] =
                  EReturn(EEnter("encrypt_value", e, Plain(p), "plain", "enc", "idle"), res)]
            /\ IF res.kind = "bytes"
               THEN /\ ivgen' = ivgen + 1
                    /\ produced' = Append(produced, [em |-> e, p |-> p, ct |-> res.bytes])
               ELSE UNCHANGED <<ivgen, produced>>
    /\ UNCHANGED <<KEYRING_AVAILABLE, backend, keyring, fs, inst, active, call, ncalls, keygen,
                   reserved_used, em, userfiles, master_deleted, mig_vars>>

\* the ciphertexts callers pass to decrypt_value: the one encrypt_value
\* returned last, that one modified, a token under a foreign key, plain bytes
ForeignToken == FernetToken(MaxKeys + 1, 0, "p1")
DecryptKinds == {"returned", "modified", "foreign", "plain"}
DecryptInput(kind) ==
    CASE kind = "returned" -> produced[Len(produced)].ct
      [] kind = "modified" -> Damaged(produced[Len(produced)].ct)
      [] kind = "foreign" -> ForeignToken
      [] OTHER -> Plain("p1")

\* decrypt_value(ciphertext): _get_cipher (one get_secret) and cipher.decrypt
decrypt_value(c, e, kind) ==
    /\ ECanCall(c)
    /\ kind \in {"returned", "modified"} => produced # <<>>
    /\ EmReady(e)
    /\ \E fault \in GetFaults(StoreOf(e)) :
         LET r == secrets_get(StoreOf(e), MASTER_KEY_NAME, fault)
             ct == DecryptInput(kind)
         IN /\ faults' = IF fault THEN faults + 1 ELSE faults
            /\ ecall' = [ecall EXCEPT ![c] =
                  EReturn(EEnter("decrypt_value", e, ct, "plain", "enc", "idle"),
                          decrypt_value_result(r, ct))]
    /\ UNCHANGED <<KEYRING_AVAILABLE, backend, keyring, fs, inst, active, call, ncalls, keygen,
                   reserved_used, em, userfiles, ivgen, produced, master_deleted, mig_vars>>

\* encrypt_file / decrypt_file without the check that the input exists
input_missing_unchecked(f) == FALSE

\* if not input_path.exists(): raise FileNotFoundError
input_missing(f) == ~f.exists

\* encrypt_file(input_path, output_path) up to its write of the output: the
\* existence check, read_bytes and encrypt_value
encrypt_file(c, e, inp, out) ==
    /\ ECanCall(c)
    /\ EmReady(e)
    /\ ivgen < MaxEncrypts
    /\ \E fault \in GetFaults(StoreOf(e)) :
         LET cr == EEnter("encrypt_file", e, userfiles[inp].bytes, inp, out, "idle")
             r == secrets_get(StoreOf(e), MASTER_KEY_NAME, fault)
             res == encrypt_value_result(r, ivgen + 1, userfiles[inp].bytes.pt)
         IN IF input_missing(userfiles[inp])
            THEN /\ ~fault
                 /\ ecall' = [ecall EXCEPT ![c] = EReturn(cr, ERaised("FileNotFoundError"))]
                 /\ UNCHANGED <<faults, ivgen, produced>>
            ELSE /\ faults' = IF fault THEN faults + 1 ELSE faults
                 /\ IF res.kind = "bytes"
                    THEN /\ ecall' = [ecall EXCEPT ![c] =
                               [cr EXCEPT !.pc = "file_write", !.data = res.bytes]]
                         /\ ivgen' = ivgen + 1
                         /\ produced' = Append(produced,
                               [em |-> e, p |-> userfiles[inp].bytes.pt, ct |-> res.bytes])
                    ELSE /\ ecall' = [ecall EXCEPT ![c] = EReturn(cr, res)]
                         /\ UNCHANGED <<ivgen, produced>>
    /\ UNCHANGED <<KEYRING_AVAILABLE, backend, keyring, fs, inst, active, call, ncalls, keygen,
                   reserved_used, em, userfiles, master_deleted, mig_vars>>

\* decrypt_file(input_path, output_path) up to its write of the output: the
\* existence check, read_bytes and decrypt_value
decrypt_file(c, e, inp, out) ==
    /\ ECanCall(c)
    /\ EmReady(e)
    /\ \E fault \in GetFaults(StoreOf(e)) :
         LET cr == EEnter("decrypt_file", e, userfiles[inp].bytes, inp, out, "idle")
             r == secrets_get(StoreOf(e), MASTER_KEY_NAME, fault)
             res == decrypt_value_result(r, userfiles[inp].bytes)
         IN IF input_missing(userfiles[inp])
            THEN /\ ~fault
                 /\ ecall' = [ecall EXCEPT ![c] = EReturn(cr, ERaised("FileNotFoundError"))]
                 /\ UNCHANGED faults
            ELSE /\ faults' = IF fault THEN faults + 1 ELSE faults
                 /\ ecall' = [ecall EXCEPT ![c] =
                       IF res.kind = "bytes"
                       THEN [cr EXCEPT !.pc = "file_write", !.data = res.bytes]
                       ELSE EReturn(cr, res)]
    /\ UNCHANGED <<KEYRING_AVAILABLE, backend, keyring, fs, inst, active, call, ncalls, keygen,
                   reserved_used, em, userfiles, ivgen, produced, master_deleted, mig_vars>>

\* output_path.write_bytes(...): creates the file with the default mode, or
\* replaces the content of an existing file and keeps its mode
file_write_bytes(c) ==
    /\ ecall[c].pc = "file_write"
    /\ userfiles' = [userfiles EXCEPT ![ecall[c].out] =
          [exists |-> TRUE, bytes |-> ecall[c].data,
           mode |-> IF @.exists THEN @.mode ELSE MODE_DEFAULT]]
    /\ ecall' = [ecall EXCEPT ![c].pc = "file_chmod"]
    /\ UNCHANGED <<KEYRING_AVAILABLE, backend, keyring, fs, inst, active, call, ncalls, faults,
                   keygen, reserved_used, em, ivgen, produced, master_deleted, mig_vars>>

\* output_path.chmod(0o600), and the return of encrypt_file / decrypt_file
file_chmod(c) ==
    /\ ecall[c].pc = "file_chmod"
    /\ userfiles' = [userfiles EXCEPT ![ecall[c].out].mode = MODE_0600]
    /\ ecall' = [ecall EXCEPT ![c] = EReturn(@, EReturnedNone)]
    /\ UNCHANGED <<KEYRING_AVAILABLE, backend, keyring, fs, inst, active, call, ncalls, faults,
                   keygen, reserved_used, em, ivgen, produced, master_deleted, mig_vars>>

\* The encrypted file is modified, or replaced by plain bytes, while no call
\* is in progress.
TamperUserFile ==
    /\ \A c \in Callers : call[c].pc = "idle" /\ ecall[c].pc = "idle"
    /\ userfiles["enc"].exists
    /\ userfiles["enc"].bytes.kind = "token"
    /\ \E b \in {Damaged(userfiles["enc"].bytes), Plain("p1")} :
         userfiles' = [userfiles EXCEPT !["enc"].bytes = b]
    /\ UNCHANGED <<KEYRING_AVAILABLE, backend, keyring, fs, inst, active, call, ncalls, faults,
                   keygen, reserved_used, em, ecall, ivgen, produced, master_deleted, mig_vars>>

\* The state before any construction, with no user file: callers encrypt
\* and decrypt values.
InitEnc == InitSecrets /\ InitExt

NextEnc ==
    \/ \E c \in Callers, i \in Inst : construct(c, i, "None")
    \/ \E c \in Callers : test_keyring(c)
    \/ \E c \in Callers : init_fallback_mkdir(c)
    \/ \E c \in Callers : init_fallback_key_exists(c)
    \/ \E c \in Callers : init_fallback_key_write(c)
    \/ \E c \in Callers : init_fallback_key_chmod(c)
    \/ \E c \in Callers : init_fallback_key_read(c)
    \/ \E c \in Callers : init_fallback_data_exists(c)
    \/ \E c \in Callers : write_fallback_data_write(c)
    \/ \E c \in Callers : write_fallback_data_chmod(c)
    \/ \E c \in Callers, e \in Inst : EncryptionManager_init(c, e, e)
    \/ \E c \in Callers : ensure_master_key_store(c)
    \/ \E c \in Callers, e \in Inst, p \in Plaintexts : encrypt_value(c, e, p)
    \/ \E c \in Callers, e \in Inst, kind \in DecryptKinds : decrypt_value(c, e, kind)

SpecEnc == InitEnc /\ [][NextEnc]_vars

\* The state before any construction, with the plaintext file callers
\* encrypt present or absent.
InitEncFile ==
    /\ InitSecrets
    /\ em = [e \in Inst |-> NoManager]
    /\ ecall = [c \in Callers |-> IdleECall]
    /\ userfiles \in {[p \in Paths |-> NoUserFile],
                      [p \in Paths |-> IF p = "plain"
                                       THEN [exists |-> TRUE, bytes |-> Plain(FileText),
                                             mode |-> MODE_DEFAULT]
                                       ELSE NoUserFile]}
    /\ ivgen = 0
    /\ produced = <<>>
    /\ master_deleted = FALSE
    /\ tree = NoTree
    /\ mcall = IdleMCall
    /\ acall = IdleACall

\* one SecretsManager and one EncryptionManager; files are encrypted and
\* decrypted, the encrypted file may be tampered with and the master key
\* may be deleted from the store
NextEncFile ==
    \/ \E c \in Callers : construct(c, 1, "None")
    \/ \E c \in Callers : test_keyring(c)
    \/ \E c \in Callers : init_fallback_mkdir(c)
    \/ \E c \in Callers : init_fallback_key_exists(c)
    \/ \E c \in Callers : init_fallback_key_write(c)
    \/ \E c \in Callers : init_fallback_key_chmod(c)
    \/ \E c \in Callers : init_fallback_data_exists(c)
    \/ \E c \in Callers : write_fallback_data_write(c)
    \/ \E c \in Callers : write_fallback_data_chmod(c)
    \/ \E c \in Callers : delete_secret(c, 1, MASTER_KEY_NAME)
    \/ \E c \in Callers : keyring_delete_password(c)
    \/ \E c \in Callers : update_keyring_metadata_read(c)
    \/ \E c \in Callers : update_keyring_metadata_write(c)
    \/ \E c \in Callers : keyring_raises(c)
    \/ \E c \in Callers : fallback_read(c)
    \/ \E c \in Callers : EncryptionManager_init(c, 1, 1)
    \/ \E c \in Callers : ensure_master_key_store(c)
    \/ \E c \in Callers : encrypt_file(c, 1, "plain", "enc")
    \/ \E c \in Callers : decrypt_file(c, 1, "enc", "dec")
    \/ \E c \in Callers : file_write_bytes(c)
    \/ \E c \in Callers : file_chmod(c)
    \/ TamperUserFile

SpecEncFile == InitEncFile /\ [][NextEncFile]_vars

\* ====================================================== SecretsMigrator
\* migrate_from_file's loop stopping at the first store that raises
store_loop_rest_abort(pending, failed) == IF failed THEN <<>> ELSE Tail(pending)

\* for key, value in secrets.items(): the pairs left after one iteration
store_loop_rest(pending, failed) == Tail(pending)

\* a store call that refuses a key the store already holds
store_call_no_overwrite(m, kr, files, key, value, fault) ==
    IF get_secret_result(m, kr, files, key) # Returned(None)
    THEN [ret |-> Raised("ValueError"), keyring |-> kr, fs |-> files]
    ELSE store_secret_effect(m, kr, files, key, value, fault)

\* self._secrets.store_secret(key, value) in the store loop
store_call(m, kr, files, key, value, fault) ==
    store_secret_effect(m, kr, files, key, value, fault)

MReturn(cr, ret) ==
    [cr EXCEPT !.pc = "idle", !.ret = ret, !.post = [keyring |-> keyring, fs |-> fs]]

\* migrate_secrets(path, recursive, secrets_manager): path.exists(), the
\* migrator's construction and the choice between file and directory
migrate_secrets(c, i, path, recursive) ==
    /\ CanCall(c)
    /\ Ready(i)
    /\ ncalls' = ncalls + 1
    /\ LET prev == IF /\ mcall.ret.kind # "pending"
                       /\ mcall.path = path
                       /\ mcall.recursive = recursive
                       /\ mcall.post = [keyring |-> keyring, fs |-> fs]
                    THEN [valid |-> TRUE, ret |-> mcall.ret, faulted |-> mcall.faulted]
                    ELSE NoPrev
           cr == [IdleMCall EXCEPT !.inst = i, !.path = path, !.recursive = recursive,
                                   !.pre = [keyring |-> keyring, fs |-> fs],
                                   !.prev = prev]
       IN mcall' =
            IF path \notin (ConfigFiles \cup ConfigDirs)
            THEN MReturn(cr, MRaised("FileNotFoundError"))
            ELSE IF path \in ConfigFiles
            THEN [cr EXCEPT !.pc = "next_file", !.queue = <<path>>]
            ELSE [cr EXCEPT !.pc = "next_file", !.isdir = TRUE,
                            !.queue = glob_all(path, recursive, DirPatterns)]
    /\ UNCHANGED <<KEYRING_AVAILABLE, backend, keyring, fs, inst, active, call, faults, keygen,
                   reserved_used, enc_vars, master_deleted, tree, acall>>

\* migrate_from_directory without the test of processed_files
already_processed_never(file_path, processed_files) == FALSE

\* migrate_from_directory: if file_path in processed_files
already_processed(file_path, processed_files) == file_path \in processed_files

\* migrate_from_directory: one iteration of the loops over the patterns and
\* the files of glob up to the store loop of migrate_from_file (the skip and
\* duplicate checks, is_file, read_text and the extraction), or the return
\* when the loops are over; for a file path, migrate_from_file up to its
\* store loop
migrate_next_file ==
    /\ mcall.pc = "next_file"
    /\ IF mcall.queue = <<>>
       THEN mcall' = MReturn(mcall, MigrationResult(mcall.total_found, mcall.total_migrated,
                                                    mcall.all_errors, mcall.source_files))
       ELSE LET f == Head(mcall.queue)
                started == [mcall EXCEPT !.processed = @ \cup {f},
                                         !.handled = Append(@, f),
                                         !.attempted = <<>>, !.migrated = 0,
                                         !.errors = <<>>]
            IN IF mcall.isdir /\ (in_skip_dir(f) \/ already_processed(f, mcall.processed))
               THEN mcall' = [mcall EXCEPT !.queue = Tail(@)]
               ELSE IF ~tree[f].readable
               THEN mcall' =
                      IF mcall.isdir
                      THEN [started EXCEPT
                              !.queue = Tail(@),
                              !.all_errors = Append(@, [kind |-> "file", name |-> f,
                                                        e |-> "UnicodeDecodeError"])]
                      ELSE MReturn(started, MRaised("UnicodeDecodeError"))
               ELSE LET secrets == extract_secrets(f, tree[f])
                    IN mcall' = [started EXCEPT
                                   !.secrets = secrets, !.pending = secrets,
                                   !.pc = IF secrets = <<>> THEN "file_done" ELSE "store"]
    /\ UNCHANGED <<KEYRING_AVAILABLE, backend, keyring, fs, inst, active, call, ncalls, faults,
                   keygen, reserved_used, enc_vars, master_deleted, tree, acall>>

\* migrate_from_file: one iteration of the store loop, self._secrets
\* .store_secret(key, value) inside try / except Exception
migrate_store ==
    /\ mcall.pc = "store"
    /\ LET key == Head(mcall.pending)[1]
           value == Head(mcall.pending)[2]
           m == inst[mcall.inst]
       IN \E fault \in StoreFaults(m) :
            LET eff == store_call(m, keyring, fs, key, value, fault)
                failed == eff.ret.kind = "raise"
                rest == store_loop_rest(mcall.pending, failed)
            IN /\ faults' = IF fault # "none" THEN faults + 1 ELSE faults
               /\ keyring' = eff.keyring
               /\ fs' = eff.fs
               /\ mcall' = [mcall EXCEPT
                     !.attempted = Append(@, key),
                     !.faulted = @ \/ fault # "none",
                     !.migrated = IF failed THEN @ ELSE @ + 1,
                     !.errors = IF failed
                                THEN Append(@, [kind |-> "store", name |-> key, e |-> eff.ret.e])
                                ELSE @,
                     !.pending = rest,
                     !.pc = IF rest = <<>> THEN "file_done" ELSE "store"]
    /\ UNCHANGED <<KEYRING_AVAILABLE, backend, inst, active, call, ncalls, keygen,
                   reserved_used, enc_vars, master_deleted, tree, acall>>

\* the return of migrate_from_file: to migrate_secrets, which builds the
\* MigrationResult of a file path, or to migrate_from_directory, which adds
\* the file's counts and errors to its totals
migrate_file_done ==
    /\ mcall.pc = "file_done"
    /\ mcall' =
         IF ~mcall.isdir
         THEN MReturn(mcall, MigrationResult(mcall.migrated, mcall.migrated, mcall.errors,
                                             IF mcall.migrated > 0 THEN <<mcall.path>> ELSE <<>>))
         ELSE [mcall EXCEPT
                 !.total_found = IF mcall.migrated > 0 THEN @ + mcall.migrated ELSE @,
                 !.total_migrated = IF mcall.migrated > 0 THEN @ + mcall.migrated ELSE @,
                 !.source_files = IF mcall.migrated > 0 THEN Append(@, Head(mcall.queue)) ELSE @,
                 !.all_errors = @ \o mcall.errors,
                 !.file_counts = Append(@, [file |-> Head(mcall.queue),
                                            migrated |-> mcall.migrated]),
                 !.queue = Tail(@),
                 !.pc = "next_file"]
    /\ UNCHANGED <<KEYRING_AVAILABLE, backend, keyring, fs, inst, active, call, ncalls, faults,
                   keygen, reserved_used, enc_vars, master_deleted, tree, acall>>

\* ======================================================= SecretsAuditor
\* should_skip: a SKIP_PATTERNS directory name among the parts of the path
\* (the suffix and substring entries match no file name of the model)
skip_pattern_dirs == {".git", "__pycache__", "node_modules", ".venv", "venv",
                      ".pytest_cache", "*.egg-info", "dist", "build"}
should_skip(path) == \E n \in 1..Len(path) : path[n] \in skip_pattern_dirs

\* should_scan_file on a path that is a file
SCAN_EXTENSIONS == {".py", ".env", ".yml", ".yaml", ".json", ".toml", ".ini",
                    ".conf", ".config", ".sh", ".bash", ".md", ".txt"}
starts_with_dot(name) == name = ".env"
should_scan_file(path) ==
    /\ path \in ConfigFiles
    /\ ~should_skip(path)
    /\ \/ PathSuffix(path) \in SCAN_EXTENSIONS
       \/ PathSuffix(path) = "" /\ ~starts_with_dot(PathName(path))

\* scan_directory: the files scan_file is called on, among the items of
\* root_path.rglob("*") or root_path.iterdir()
scan_directory_files(root, recursive) ==
    {f \in ConfigFiles \cup ConfigDirs :
        /\ IsUnder(f, root)
        /\ recursive \/ Len(f) = Len(root) + 1
        /\ should_scan_file(f)}

\* a text is a sequence of one-character strings
Rep(ch, n) == [i \in 1..n |-> ch]
Alnum == {"a", "b", "d", "g", "h", "k", "o", "p", "r", "s", "w", "1"}
NotSpaceQuote == Alnum \cup {"-", "_", "="}

\* PATTERNS, in the order of the table, for the three detectors the texts of
\* the model can trigger: a literal prefix, then a run of at least (and for
\* github_token exactly) min characters of a class.  On these texts the
\* optional quotes and blanks of the password pattern match nothing.
PATTERNS ==
    <<[pattern_type |-> "openai_key", severity |-> "HIGH",
       prefix |-> <<"s", "k", "-">>, class |-> Alnum, min |-> 32, exact |-> FALSE],
      [pattern_type |-> "github_token", severity |-> "HIGH",
       prefix |-> <<"g", "h", "p", "_">>, class |-> Alnum, min |-> 36, exact |-> TRUE],
      [pattern_type |-> "password", severity |-> "MEDIUM",
       prefix |-> <<"p", "a", "s", "s", "w", "o", "r", "d", "=">>,
       class |-> NotSpaceQuote, min |-> 8, exact |-> FALSE]>>

\* the length of the run of class characters of text that starts at pos
RECURSIVE run_length(_, _, _)
run_length(text, pos, class) ==
    IF pos > Len(text) \/ text[pos] \notin class THEN 0
    ELSE 1 + run_length(text, pos + 1, class)

\* whether the pattern matches text at start
matches_at(pat, text, start) ==
    /\ start + Len(pat.prefix) - 1 <= Len(text)
    /\ SubSeq(text, start, start + Len(pat.prefix) - 1) = pat.prefix
    /\ run_length(text, start + Len(pat.prefix), pat.class) >= pat.min

\* pattern.search(line): the leftmost match, with match.start() counted from
\* 0 and the matched text, the run taken as long as the pattern allows
search(pat, text) ==
    LET starts == {n \in 1..Len(text) : matches_at(pat, text, n)}
    IN IF starts = {} THEN [found |-> FALSE, start |-> 0, text |-> <<>>]
       ELSE LET n == CHOOSE x \in starts : \A y \in starts : x <= y
                run == run_length(text, n + Len(pat.prefix), pat.class)
                len == Len(pat.prefix) + (IF pat.exact THEN pat.min ELSE run)
            IN [found |-> TRUE, start |-> n - 1, text |-> SubSeq(text, n, n + len - 1)]

\* str.rstrip() on a line of the file: the newline and trailing blanks
RECURSIVE rstrip(_)
rstrip(text) ==
    IF text # <<>> /\ text[Len(text)] \in {" ", "\n"}
    THEN rstrip(SubSeq(text, 1, Len(text) - 1))
    ELSE text

REDACTED == <<"*", "*", "*", "R", "E", "D", "A", "C", "T", "E", "D", "*", "*", "*">>
SHOWN == 8

\* mask_secret(text, start, length=8)
mask_secret(text, start, length) ==
    IF start + length < Len(text)
    THEN SubSeq(text, 1, start + length) \o REDACTED
    ELSE SubSeq(text, 1, start) \o REDACTED

SecretFinding(file_path, line_number, pattern_type, severity, context) ==
    [file_path |-> file_path, line_number |-> line_number,
     pattern_type |-> pattern_type, severity |-> severity, context |-> context]

\* the loop over PATTERNS left at the first pattern that matches
RECURSIVE scan_line_first_match(_, _, _, _)
scan_line_first_match(file_path, line_num, line, pats) ==
    IF pats = <<>> THEN <<>>
    ELSE LET pat == Head(pats)
             match == search(pat, line)
         IN IF match.found
            THEN <<SecretFinding(file_path, line_num, pat.pattern_type, pat.severity,
                                 mask_secret(rstrip(line), match.start, SHOWN))>>
            ELSE scan_line_first_match(file_path, line_num, line, Tail(pats))

\* scan_file: the loop over PATTERNS for one line
RECURSIVE scan_line(_, _, _, _)
scan_line(file_path, line_num, line, pats) ==
    IF pats = <<>> THEN <<>>
    ELSE LET pat == Head(pats)
             match == search(pat, line)
         IN (IF match.found
             THEN <<SecretFinding(file_path, line_num, pat.pattern_type, pat.severity,
                                  mask_secret(rstrip(line), match.start, SHOWN))>>
             ELSE <<>>)
            \o scan_line(file_path, line_num, line, Tail(pats))

\* scan_file: the loop over the lines of the file, from line_num on
RECURSIVE scan_lines(_, _, _)
scan_lines(file_path, lines, line_num) ==
    IF line_num > Len(lines) THEN <<>>
    ELSE scan_line(file_path, line_num, lines[line_num], PATTERNS)
            \o scan_lines(file_path, lines, line_num + 1)

\* scan_file(file_path): a file that cannot be opened gives no finding
scan_file(file_path, content) ==
    IF ~content.readable THEN <<>> ELSE scan_lines(file_path, content.lines, 1)

\* audit_secrets_in_path(path, recursive): the files that are scanned and the
\* findings of each (the order of the files in the returned list is that of
\* the directory listing)
audit_secrets_in_path(c, path, recursive) ==
    /\ c \in active /\ call[c].pc = "idle" /\ NoOtherCall(c)
    /\ acall' =
         IF path \notin (ConfigFiles \cup ConfigDirs)
         THEN [IdleACall EXCEPT !.path = path, !.recursive = recursive,
                                !.e = "FileNotFoundError"]
         ELSE LET scanned == IF path \in ConfigFiles THEN {path}
                             ELSE scan_directory_files(path, recursive)
              IN [IdleACall EXCEPT !.path = path, !.recursive = recursive,
                                   !.scanned = scanned,
                                   !.findings = [f \in scanned |-> scan_file(f, tree[f])]]
    /\ UNCHANGED <<KEYRING_AVAILABLE, backend, keyring, fs, inst, active, call, ncalls, faults,
                   keygen, reserved_used, enc_vars, master_deleted, tree, mcall>>

\* the contents of root/.env in the model
EnvContents ==
    {FileContent(<<Line("API_KEY", "=", "abc123"), Line("PORT", "=", "8000")>>),
     FileContent(<<Line("DB_PASSWORD", "=", "'s3cret'"), Line("api_key", "=", "lower"),
                   Line("API_KEY", "=", "abc123")>>),
     FileContent(<<Line("DB_PASSWORD", "=", " "), Line("API_KEY", "=", ""),
                   Line("API_KEY", "=", "abc123"), Line("API_KEY", "=", "zzz")>>),
     Undecodable}

\* The state before any construction, with the tree of configuration files.
InitMig ==
    /\ InitSecrets
    /\ em = [e \in Inst |-> NoManager]
    /\ ecall = [c \in Callers |-> IdleECall]
    /\ userfiles = [p \in Paths |-> NoUserFile]
    /\ ivgen = 0
    /\ produced = <<>>
    /\ master_deleted = FALSE
    /\ \E content \in EnvContents :
         tree = [f \in ConfigFiles |->
                   CASE f = ENV_FILE -> content
                     [] f = GIT_ENV_FILE -> FileContent(<<Line("API_KEY", "=", "abc123")>>)
                     [] f = GIT_YML_FILE -> FileContent(<<Line("api_key", ":", "xyz789")>>)
                     [] OTHER -> FileContent(<<Line("api_key", ":", "xyz789"),
                                               Line("PORT", ":", "8000")>>)]
    /\ mcall = IdleMCall
    /\ acall = IdleACall

\* the paths callers pass to migrate_secrets in the model
MigratePaths == {ROOT, GIT_DIR, ENV_FILE, GIT_ENV_FILE, SUB_YML_FILE, MISSING}

\* one SecretsManager; callers store the secret "a" and migrate paths
NextMig ==
    \/ \E c \in Callers : construct(c, 1, "None")
    \/ \E c \in Callers : test_keyring(c)
    \/ \E c \in Callers : init_fallback_mkdir(c)
    \/ \E c \in Callers : init_fallback_key_exists(c)
    \/ \E c \in Callers : init_fallback_key_write(c)
    \/ \E c \in Callers : init_fallback_key_chmod(c)
    \/ \E c \in Callers : init_fallback_data_exists(c)
    \/ \E c \in Callers : write_fallback_data_write(c)
    \/ \E c \in Callers : write_fallback_data_chmod(c)
    \/ \E c \in Callers : store_secret(c, 1, "a", Str("v1"))
    \/ \E c \in Callers : keyring_set_password(c)
    \/ \E c \in Callers : update_keyring_metadata_read(c)
    \/ \E c \in Callers : update_keyring_metadata_write(c)
    \/ \E c \in Callers : keyring_raises(c)
    \/ \E c \in Callers : fallback_read(c)
    \/ \E c \in Callers, path \in MigratePaths, recursive \in BOOLEAN :
          migrate_secrets(c, 1, path, recursive)
    \/ migrate_next_file
    \/ migrate_store
    \/ migrate_file_done

SpecMig == InitMig /\ [][NextMig]_vars

\* the lines of the scanned files in the model
OPENAI_SECRET == <<"s", "k", "-">> \o Rep("a", 32)
GITHUB_SECRET == <<"g", "h", "p", "_">> \o Rep("b", 36)
AuditLines ==
    {<<"a", "b", " ", "=", " ", "1", "\n">>,
     OPENAI_SECRET \o <<"\n">>,
     <<"k", " ", "=", " ">> \o OPENAI_SECRET \o <<" ", "\n">>,
     GITHUB_SECRET \o <<"\n">>,
     OPENAI_SECRET \o <<" ">> \o GITHUB_SECRET \o <<"\n">>,
     <<"p", "a", "s", "s", "w", "o", "r", "d", "=">> \o OPENAI_SECRET \o <<"\n">>,
     <<"s", "k", "-">> \o Rep("a", 5) \o <<"\n">>}

\* files of one to MaxLines lines
AuditContents ==
    UNION {[1..n -> AuditLines] : n \in 1..MaxLines}

\* The state before any scan, with the tree of files to scan (the auditor
\* uses no Secret Store, whose environment is fixed).
InitAudit ==
    /\ InitSecrets
    /\ KEYRING_AVAILABLE /\ backend = "ok"
    /\ em = [e \in Inst |-> NoManager]
    /\ ecall = [c \in Callers |-> IdleECall]
    /\ userfiles = [p \in Paths |-> NoUserFile]
    /\ ivgen = 0
    /\ produced = <<>>
    /\ master_deleted = FALSE
    /\ \E lines \in AuditContents :
         tree = [f \in ConfigFiles |->
                   IF f \in {ENV_FILE, SUB_YML_FILE} THEN FileContent(lines)
                   ELSE FileContent(<<OPENAI_SECRET \o <<"\n">> >>)]
    /\ mcall = IdleMCall
    /\ acall = IdleACall

\* callers audit paths of the tree
NextAudit ==
    \E c \in Callers, path \in PathArgs, recursive \in BOOLEAN :
        audit_secrets_in_path(c, path, recursive)

SpecAudit == InitAudit /\ [][NextAudit]_vars

\* ------------------------------------------------------------------- Next
Next ==
    \/ \E c \in Callers, i \in Inst, force \in {"None", "True", "False"} : construct(c, i, force)
    \/ \E c \in Callers : test_keyring(c)
    \/ \E c \in Callers : init_fallback_mkdir(c)
    \/ \E c \in Callers : init_fallback_key_exists(c)
    \/ \E c \in Callers : init_fallback_key_write(c)
    \/ \E c \in Callers : init_fallback_key_chmod(c)
    \/ \E c \in Callers : init_fallback_key_read(c)
    \/ \E c \in Callers : init_fallback_data_exists(c)
    \/ \E c \in Callers : write_fallback_data_write(c)
    \/ \E c \in Callers : write_fallback_data_chmod(c)
    \/ \E c \in Callers, i \in Inst, k \in CallerKeys, v \in CallerValues : store_secret(c, i, k, v)
    \/ \E c \in Callers, i \in Inst, k \in CallerKeys : get_secret(c, i, k)
    \/ \E c \in Callers, i \in Inst, k \in CallerKeys : delete_secret(c, i, k)
    \/ \E c \in Callers, i \in Inst : list_secrets(c, i)
    \/ \E c \in Callers, i \in Inst : audit_secrets(c, i)
    \/ \E c \in Callers : keyring_set_password(c)
    \/ \E c \in Callers : keyring_get_password(c)
    \/ \E c \in Callers : keyring_delete_password(c)
    \/ \E c \in Callers : keyring_list(c)
    \/ \E c \in Callers : update_keyring_metadata_read(c)
    \/ \E c \in Callers : update_keyring_metadata_write(c)
    \/ \E c \in Callers : keyring_raises(c)
    \/ \E c \in Callers : fallback_read(c)

Spec == Init /\ [][Next]_vars

\* ------------------------------------------------------------ environment
\* The data file is damaged, truncated or replaced by a ciphertext under
\* another key while no call is in progress.
TamperDataFile ==
    /\ \A c \in Callers : call[c].pc = "idle"
    /\ fs.data.exists
    /\ FernetDecryptOk(fs.key.bytes, fs.data.bytes)
    /\ \E b \in {DamagedBytes(fs.data.bytes), NoBytes,
                 FernetEncrypt(MaxKeys + 1, fs.data.bytes.pt)} :
         fs' = [fs EXCEPT !.data.bytes = b]
    /\ UNCHANGED <<ext_vars, reserved_used, KEYRING_AVAILABLE, backend, keyring, inst, active,
                   call, ncalls, faults, keygen>>

\* A host on which `import keyring` failed: every instance is in fallback mode.
InitFallback ==
    /\ Init
    /\ ~KEYRING_AVAILABLE
    /\ backend = "none"

NextTamper ==
    \/ \E c \in Callers, i \in Inst, force \in {"None", "True", "False"} : construct(c, i, force)
    \/ \E c \in Callers : init_fallback_mkdir(c)
    \/ \E c \in Callers : init_fallback_key_exists(c)
    \/ \E c \in Callers : init_fallback_key_write(c)
    \/ \E c \in Callers : init_fallback_key_chmod(c)
    \/ \E c \in Callers : init_fallback_key_read(c)
    \/ \E c \in Callers : init_fallback_data_exists(c)
    \/ \E c \in Callers : write_fallback_data_write(c)
    \/ \E c \in Callers : write_fallback_data_chmod(c)
    \/ \E c \in Callers, i \in Inst, k \in CallerKeys, v \in CallerValues : store_secret(c, i, k, v)
    \/ \E c \in Callers, i \in Inst, k \in CallerKeys : get_secret(c, i, k)
    \/ \E c \in Callers, i \in Inst, k \in CallerKeys : delete_secret(c, i, k)
    \/ \E c \in Callers, i \in Inst : list_secrets(c, i)
    \/ \E c \in Callers, i \in Inst : audit_secrets(c, i)
    \/ \E c \in Callers : fallback_read(c)
    \/ TamperDataFile

SpecTamper == InitFallback /\ [][NextTamper]_vars

\* ------------------------------------------------------------ concurrency
\* Two processes, each constructing its own SecretsManager on one fallback
\* directory (no keyring module) and storing under different keys; their
\* filesystem calls interleave freely.
RaceCallers == {1, 2}
RaceKeys == {"a", "b"}

InitRace ==
    /\ KEYRING_AVAILABLE = FALSE
    /\ backend = "none"
    /\ keyring = EmptyKeyring
    /\ fs = EmptyDir
    /\ inst = [i \in Inst |-> NoInstance]
    /\ active = RaceCallers
    /\ call = [c \in Callers |-> IdleCall]
    /\ ncalls = 0
    /\ faults = 0
    /\ keygen = 0
    /\ reserved_used = FALSE
    /\ InitExt

NextRace ==
    \/ \E c \in RaceCallers : construct(c, c, "None")
    \/ \E c \in RaceCallers : init_fallback_mkdir(c)
    \/ \E c \in RaceCallers : init_fallback_key_exists(c)
    \/ \E c \in RaceCallers : init_fallback_key_write(c)
    \/ \E c \in RaceCallers : init_fallback_key_chmod(c)
    \/ \E c \in RaceCallers : init_fallback_key_read(c)
    \/ \E c \in RaceCallers : init_fallback_data_exists(c)
    \/ \E c \in RaceCallers : write_fallback_data_write(c)
    \/ \E c \in RaceCallers : write_fallback_data_chmod(c)
    \/ \E c \in RaceCallers, k \in RaceKeys : store_secret(c, c, k, Str("v1"))
    \/ \E c \in RaceCallers : fallback_read(c)

SpecRace == InitRace /\ [][NextRace]_vars

\* Two callers constructing EncryptionManagers over one SecretsManager in
\* keyring mode, then encrypting and decrypting; the get_secret and the
\* store_secret of _ensure_master_key are separate steps.
InitEncRace ==
    /\ KEYRING_AVAILABLE = TRUE
    /\ backend = "ok"
    /\ keyring = EmptyKeyring
    /\ fs = EmptyDir
    /\ inst = [i \in Inst |-> NoInstance]
    /\ active = RaceCallers
    /\ call = [c \in Callers |-> IdleCall]
    /\ ncalls = 0
    /\ faults = 0
    /\ keygen = 0
    /\ reserved_used = FALSE
    /\ InitExt

NextEncRace ==
    \/ \E c \in RaceCallers : construct(c, 1, "None")
    \/ \E c \in RaceCallers : test_keyring(c)
    \/ \E c \in RaceCallers : EncryptionManager_init(c, c, 1)
    \/ \E c \in RaceCallers : ensure_master_key_store(c)
    \/ \E c \in RaceCallers, p \in Plaintexts : encrypt_value(c, c, p)
    \/ \E c \in RaceCallers : decrypt_value(c, c, "returned")

SpecEncRace == InitEncRace /\ [][NextEncRace]_vars

\* ================================================================ claims
Finished(c) == c \in active /\ call[c].pc = "idle" /\ call[c].ret.kind # "pending"
AllIdle == \A c \in Callers : call[c].pc = "idle"
Members(files) == json_loads_dict(files.data.bytes.pt)
GetNow(c, k) == get_secret_result(inst[call[c].inst], keyring, fs, k)
GetPre(c, k) == get_secret_result(inst[call[c].inst], call[c].pre.keyring, call[c].pre.fs, k)
ListNow(c) == list_secrets_result(inst[call[c].inst], keyring, fs)

\* the keys other than the call's own; in keyring mode the slot of the index,
\* which every store and delete rewrites, is not counted among them
OtherKeys(c) ==
    CallerKeys \ ({call[c].key} \cup
                  (IF inst[call[c].inst].use_keyring THEN {METADATA_KEY} ELSE {}))

\* C1: once store(k, v) has returned, get(k) returns v (whatever k held
\* before) and get(k2) returns what it returned before the call for every
\* other key k2, in keyring mode and in fallback mode.
C1_StoreRoundTrip ==
    \A c \in Callers :
        (Finished(c) /\ call[c].op = "store" /\ call[c].ret.kind = "value") =>
            /\ GetNow(c, call[c].key) = Returned(call[c].value)
            /\ \A k2 \in OtherKeys(c) : GetNow(c, k2) = GetPre(c, k2)

\* C2: as long as no keyring call has failed, delete(k) returns True exactly
\* when get(k) was not None before the call; after it returns get(k) is None
\* and the list that list() returns does not name k; a False return leaves
\* every secret and the key list as they were; every other key keeps its value.
C2_DeleteContract ==
    \A c \in Callers :
        (Finished(c) /\ call[c].op = "delete" /\ call[c].ret.kind = "bool"
            /\ faults = 0) =>
            /\ call[c].ret.b <=> (GetPre(c, call[c].key) # Returned(None))
            /\ GetNow(c, call[c].key) = Returned(None)
            /\ ListNow(c).kind = "list" => call[c].key \notin Range(ListNow(c).l)
            /\ ~call[c].ret.b => (keyring = call[c].pre.keyring /\ fs = call[c].pre.fs)
            /\ \A k2 \in OtherKeys(c) : GetNow(c, k2) = GetPre(c, k2)

\* C3: when every call has completed, no store or delete was given the
\* reserved index name and no keyring call failed, list() of every instance
\* returns a list, and get(k) is a value other than None for each k in it.
C3_ListedKeysRetrievable ==
    (AllIdle /\ ~reserved_used /\ faults = 0) =>
        \A i \in Inst :
            (Ready(i) /\ (inst[i].use_keyring => backend = "ok")) =>
                LET l == list_secrets_result(inst[i], keyring, fs)
                IN /\ l.kind = "list"
                   /\ \A n \in 1..Len(l.l) :
                        LET g == get_secret_result(inst[i], keyring, fs, l.l[n])
                        IN g.kind = "value" /\ g.v # None

\* a delete has returned True in keyring mode and the index still names a key
C3_Witness ==
    /\ ~reserved_used /\ faults = 0
    /\ \E c \in Callers :
        /\ Finished(c) /\ call[c].op = "delete" /\ call[c].ret = ReturnedBool(TRUE)
        /\ inst[call[c].inst].use_keyring
        /\ ListNow(c).kind = "list" /\ Len(ListNow(c).l) = 1

\* C4: in every state, between the steps of construction, store and delete
\* too, the data file if it exists is a Fernet token under the key held by
\* the key file, and its plaintext is the JSON object of a key-to-value map
\* of non-empty strings; it never holds unencrypted bytes.
C4_DataFileIsCiphertext ==
    fs.data.exists =>
        /\ fs.data.bytes.kind = "token"
        /\ fs.key.exists
        /\ fs.data.bytes.key = fs.key.bytes
        /\ fs.data.bytes.pt.json = "object"
        /\ \A n \in 1..Len(Members(fs)) :
              Members(fs)[n][1] # "" /\ Truthy(Members(fs)[n][2])

\* a store has written the data file with a secret in it and not yet chmod'ed
C4_Witness ==
    \E c \in Callers :
        /\ call[c].pc = "chmod" /\ call[c].op = "store"
        /\ fs.data.exists /\ Len(Members(fs)) >= 1

\* C5: a call on a fallback-mode instance that starts while the data file is
\* not a token under the key of the key file leaves the data file as it was
\* and does not return: get, delete, list, audit and store raise the
\* decryption error InvalidToken (a store whose key or value is empty is
\* refused with ValueError before the file is read); construction of a new
\* instance leaves the data file as it was.
PreInvalid(c) ==
    /\ call[c].pre.fs.data.exists
    /\ ~FernetDecryptOk(call[c].pre.fs.key.bytes, call[c].pre.fs.data.bytes)

C5_CorruptStoreFailsLoudly ==
    \A c \in Callers :
        (Finished(c) /\ ~inst[call[c].inst].use_keyring /\ PreInvalid(c)) =>
            /\ fs.data = call[c].pre.fs.data
            /\ fs.key = call[c].pre.fs.key
            /\ call[c].op \in {"get", "delete", "list", "audit"} =>
                  call[c].ret = Raised("InvalidToken")
            /\ call[c].op = "store" =>
                  call[c].ret = IF store_rejects(call[c].key, call[c].value)
                                THEN Raised("ValueError") ELSE Raised("InvalidToken")

\* a store of a valid pair has raised InvalidToken on a tampered data file
\* that held a secret
C5_Witness ==
    \E c \in Callers :
        /\ Finished(c) /\ call[c].op = "store" /\ PreInvalid(c)
        /\ ~store_rejects(call[c].key, call[c].value)
        /\ call[c].ret = Raised("InvalidToken")
        /\ Len(Members(call[c].pre.fs)) >= 1

\* C6: store(key, value) with an empty key or an empty value raises
\* ValueError without a keyring or filesystem call: keyring and fallback
\* files are as before the call.
C6_EmptyArgumentRejected ==
    \A c \in Callers :
        (Finished(c) /\ call[c].op = "store"
            /\ (call[c].key = "" \/ call[c].value = Str(""))) =>
            /\ call[c].ret = Raised("ValueError")
            /\ call[c].touched = {}
            /\ keyring = call[c].pre.keyring
            /\ fs = call[c].pre.fs

\* store("a", "") was refused and the secret "a" held before is still there
C6_Witness ==
    \E c \in Callers :
        /\ Finished(c) /\ call[c].op = "store"
        /\ call[c].key = "a" /\ call[c].value = Str("")
        /\ call[c].ret = Raised("ValueError")
        /\ GetNow(c, "a") \in {Returned(v) : v \in CallerValues \ {Str("")}}

\* C7: after construction the fields of an instance never change; a step of
\* an operation on a keyring-mode instance touches only the keyring and
\* leaves the fallback files as they are, a step on a fallback-mode instance
\* touches only the files and leaves the keyring as it is; a keyring error
\* ends the call with that exception, nothing else changed.
Acting(c) == call'[c] # call[c]
IsOperation(cr) == cr.op \in {"store", "get", "delete", "list", "audit"}

C7_BackendFixed ==
    [][ /\ \A i \in Inst : inst[i].state = "ready" => inst'[i] = inst[i]
        /\ \A c \in Callers :
              (Acting(c) /\ IsOperation(call'[c])) =>
                 LET m == inst'[call'[c].inst]
                 IN /\ call'[c].touched \subseteq {IF m.use_keyring THEN "keyring" ELSE "fs"}
                    /\ IF m.use_keyring THEN fs' = fs ELSE keyring' = keyring
                    /\ (call'[c].ret.kind = "raise"
                          /\ call'[c].ret.e \in {"KeyringError", "NoKeyringError"}) =>
                          (call'[c].pc = "idle" /\ keyring' = keyring /\ inst' = inst)
      ]_vars

\* a store on a keyring-mode instance has raised a keyring I/O error after
\* writing the password, while a fallback directory with a data file exists
C7_Witness ==
    \E c \in Callers :
        /\ Finished(c) /\ call[c].op = "store"
        /\ inst[call[c].inst].use_keyring
        /\ call[c].ret = Raised("KeyringError")
        /\ GetNow(c, call[c].key) = Returned(call[c].value)
        /\ fs.data.exists

ConstructDone(c) == Finished(c) /\ call[c].op = "construct" /\ call[c].ret.kind = "value"

\* C8 as stated: with use_keyring=None construction makes the probe, and the
\* fallback is selected exactly when the probe raised NoKeyringError.
C8_ProbeDecides_Original ==
    \A c \in Callers :
        (ConstructDone(c) /\ call[c].force = "None") =>
            /\ call[c].probe # ""
            /\ ~inst[call[c].inst].use_keyring <=> call[c].probe = "NoKeyringError"

\* C8 amended: with use_keyring=None, when the keyring library was imported
\* construction makes the probe and selects the fallback exactly when the
\* probe raised NoKeyringError (a return and any other exception select the
\* keyring); when the library was not imported no probe is made and the
\* fallback is selected.
C8_ProbeDecides ==
    \A c \in Callers :
        (ConstructDone(c) /\ call[c].force = "None") =>
            IF KEYRING_AVAILABLE
            THEN /\ call[c].probe # ""
                 /\ ~inst[call[c].inst].use_keyring <=> call[c].probe = "NoKeyringError"
            ELSE /\ call[c].probe = ""
                 /\ "keyring" \notin call[c].touched
                 /\ ~inst[call[c].inst].use_keyring

\* the probe raised an exception other than NoKeyringError and the keyring
\* was selected
C8_Witness ==
    \E c \in Callers :
        /\ ConstructDone(c) /\ call[c].force = "None"
        /\ call[c].probe = "Exception"
        /\ inst[call[c].inst].use_keyring

C10_PersistsAcrossInstances ==
    /\ \A c \in Callers :
          (ConstructDone(c) /\ ~inst[call[c].inst].use_keyring
              /\ call[c].pre.fs.data.exists) =>
              /\ fs.key = call[c].pre.fs.key
              /\ fs.data = call[c].pre.fs.data
              /\ \A k \in CallerKeys :
                    GetNow(c, k) = Returned(DictGet(Members(call[c].pre.fs), k))
    /\ (AllIdle /\ fs.data.exists) =>
          \A i \in Inst, k \in CallerKeys :
              (Ready(i) /\ ~inst[i].use_keyring) =>
                  get_secret_result(inst[i], keyring, fs, k) = Returned(DictGet(Members(fs), k))

\* a second fallback-mode instance was constructed on a directory whose data
\* file already held a secret
C10_Witness ==
    \E c \in Callers :
        /\ ConstructDone(c) /\ ~inst[call[c].inst].use_keyring
        /\ call[c].pre.fs.data.exists
        /\ Len(Members(call[c].pre.fs)) >= 1
        /\ \E i \in Inst : i # call[c].inst /\ Ready(i) /\ ~inst[i].use_keyring

\* ------------------------------------------------- EncryptionManager claims
EFinished(c) == c \in active /\ ecall[c].pc = "idle" /\ ecall[c].ret.kind # "pending"

\* what get_secret(MASTER_KEY_NAME) returns on the store of manager e and on
\* instance i, with a working backend
MasterOf(e) == get_secret_result(StoreOf(e), keyring, fs, MASTER_KEY_NAME)
MasterAt(i) == get_secret_result(inst[i], keyring, fs, MASTER_KEY_NAME)
SameBacking(i, j) == inst[i].use_keyring = inst[j].use_keyring

\* decrypt_value(ct) on manager e in the current state, no keyring failure
DecryptNow(e, ct) == decrypt_value_result(MasterOf(e), ct)

\* C11: in a sequential run of SecretsManager and EncryptionManager
\* constructions and encrypt/decrypt calls, a step never changes a master key
\* that is present in the keyring or in the fallback file, and every
\* ciphertext encrypt_value has returned decrypts to its plaintext on every
\* constructed manager whose store has the same backend.
C11_MasterKeyWrittenOnce ==
    /\ [][\A i \in Inst :
            (Ready(i) /\ MasterAt(i).kind = "value" /\ MasterAt(i).v # None) =>
                MasterAt(i)' = MasterAt(i)]_vars
    /\ [](\A n \in 1..Len(produced), e \in Inst :
            (EmReady(e) /\ SameBacking(em[e].secrets, em[produced[n].em].secrets)) =>
                DecryptNow(e, produced[n].ct) = EReturned(Plain(produced[n].p)))

\* a second manager was constructed over a second store of the same backend
\* after the first manager had returned a ciphertext
C11_Witness ==
    \E c \in Callers :
        /\ EFinished(c) /\ ecall[c].op = "construct" /\ ecall[c].em = 2
        /\ EmReady(1) /\ EmReady(2)
        /\ em[1].secrets # em[2].secrets
        /\ SameBacking(em[1].secrets, em[2].secrets)
        /\ \E n \in 1..Len(produced) : produced[n].em = 1

\* C12: any two ciphertexts that encrypt_value returned for the same
\* plaintext on the same manager differ, and decrypt_value of every returned
\* ciphertext on that manager returns the plaintext.
C12_CiphertextsDiffer ==
    /\ \A n, m \in 1..Len(produced) :
          (n # m /\ produced[n].em = produced[m].em /\ produced[n].p = produced[m].p) =>
              produced[n].ct # produced[m].ct
    /\ \A n \in 1..Len(produced) :
          DecryptNow(produced[n].em, produced[n].ct) = EReturned(Plain(produced[n].p))

\* encrypt_value has returned twice for the same plaintext on one manager
C12_Witness ==
    /\ Len(produced) = 2
    /\ produced[1].em = produced[2].em
    /\ produced[1].p = produced[2].p

\* the ciphertext is not an unmodified token made under the master key that
\* the store of manager e holds
BadCiphertext(e, ct) ==
    \/ ct.kind # "token"
    \/ MasterOf(e).kind # "value"
    \/ ~IsFernetKeyText(MasterOf(e).v)
    \/ ct.key # MasterOf(e).v.arr[1]

\* C13: decrypt_value of a ciphertext that was modified, was made under
\* another key or is not a token never returns bytes: it raises, and when no
\* keyring call has failed the exception is InvalidToken.
C13_BadCiphertextRaises ==
    \A c \in Callers :
        (EFinished(c) /\ ecall[c].op = "decrypt_value"
            /\ BadCiphertext(ecall[c].em, ecall[c].arg)) =>
            /\ ecall[c].ret.kind = "raise"
            /\ faults = 0 => ecall[c].ret = ERaised("InvalidToken")

\* decrypt_value of a ciphertext modified after encrypt_value returned it
\* has raised InvalidToken
C13_Witness ==
    \E c \in Callers, n \in 1..Len(produced) :
        /\ EFinished(c) /\ ecall[c].op = "decrypt_value"
        /\ ecall[c].arg = Damaged(produced[n].ct)
        /\ ecall[c].em = produced[n].em
        /\ ecall[c].ret = ERaised("InvalidToken")

IsFileOp(cr) == cr.op \in {"encrypt_file", "decrypt_file"}

\* C14: a step that ends encrypt_file or decrypt_file ends it with
\* FileNotFoundError when the input file did not exist at the start of the
\* call, and when it ends the call with any exception (missing input,
\* InvalidToken, master key missing or unreadable) every user file, the
\* output path included, is as it was at the start of the call.
C14_FailureLeavesOutput ==
    [][\A c \in Callers :
          (ecall'[c] # ecall[c] /\ ecall'[c].pc = "idle" /\ IsFileOp(ecall'[c])) =>
              /\ ~ecall'[c].pre[ecall'[c].inp].exists =>
                    ecall'[c].ret = ERaised("FileNotFoundError")
              /\ ecall'[c].ret.kind = "raise" => userfiles' = ecall'[c].pre
      ]_vars

\* decrypt_file has raised InvalidToken on a tampered input while the output
\* file of an earlier decrypt_file exists and still holds the plaintext
C14_Witness ==
    \E c \in Callers :
        /\ EFinished(c) /\ ecall[c].op = "decrypt_file"
        /\ ecall[c].ret = ERaised("InvalidToken")
        /\ ecall[c].pre[ecall[c].out].exists
        /\ userfiles[ecall[c].out].bytes = Plain(FileText)

\* C15: the fallback key file, the fallback data file and the outputs of
\* encrypt_file and decrypt_file have mode 0600 in every state in which they
\* exist, the states between write_bytes and chmod included.
C15_WrittenFilesOwnerOnly ==
    /\ fs.key.exists => fs.key.mode = MODE_0600
    /\ fs.data.exists => fs.data.mode = MODE_0600
    /\ \A p \in {"enc", "dec"} : userfiles[p].exists => userfiles[p].mode = MODE_0600

\* ---------------------------------------------- migration and audit claims
MReturned == mcall.pc = "idle" /\ mcall.ret.kind # "pending"
InsideGit(f) == \E n \in 1..Len(f) : f[n] = ".git"

\* what get_secret answers for every name and what list_secrets answers
StoreView(m, kr, files) ==
    [names |-> list_secrets_result(m, kr, files),
     slots |-> [k \in SlotNames |-> get_secret_result(m, kr, files, k)]]

\* the key names the filtering rule retains from a file: lower-cased names
\* of the matched pairs with a secret-shaped key and a non-blank value
SecretShaped == {"API_KEY", "DB_PASSWORD", "api_key"}
Matched(f) == findall(IF PathName(f) = ".env" THEN "env" ELSE "yaml", tree[f].lines)
RetainedKeys(f) ==
    {lower(Matched(f)[n][1]) : n \in {j \in 1..Len(Matched(f)) :
        /\ Matched(f)[j][1] \in SecretShaped
        /\ Matched(f)[j][2] \notin {"", " "}}}

\* C16: no file with .git among the parts of its path is ever scanned by
\* audit_secrets_in_path or migrated by migrate_secrets, whatever the path
\* argument (a directory above the file or the file itself) and the
\* recursive flag.
C16_GitFilesNeverHandled ==
    \A f \in ConfigFiles :
        InsideGit(f) => /\ f \notin acall.scanned
                        /\ f \notin Range(mcall.handled)
                        /\ f \notin Range(mcall.ret.source_files)

\* C17: when migrate_secrets on a file returns without a store error, the
\* keys it wrote are exactly the lower-cased names of the matched pairs with
\* a secret-shaped key and a non-blank value; each of them is then held by
\* the store, "port" is not among them, and every other name (the keyring
\* index apart) answers get_secret as it did before the call.
C17_StoresExactlySecretKeys ==
    (MReturned /\ mcall.path \in ConfigFiles /\ mcall.ret.kind = "result"
        /\ mcall.ret.errors = <<>>) =>
        LET m == inst[mcall.inst]
            before == StoreView(m, mcall.pre.keyring, mcall.pre.fs).slots
            after == StoreView(m, mcall.post.keyring, mcall.post.fs).slots
        IN /\ Range(mcall.attempted) = RetainedKeys(mcall.path)
           /\ "port" \notin Range(mcall.attempted)
           /\ \A k \in SlotNames \ {METADATA_KEY} :
                IF k \in RetainedKeys(mcall.path)
                THEN after[k].kind = "value" /\ after[k] # Returned(None)
                ELSE after[k] = before[k]

\* migrate_secrets on root/.env holding API_KEY=abc123 and PORT=8000 has
\* returned one migrated secret: api_key is stored with the value abc123,
\* port is not, and the secret "a" stored before is still there
C17_Witness ==
    /\ MReturned /\ mcall.path = ENV_FILE
    /\ tree[ENV_FILE].lines = <<Line("API_KEY", "=", "abc123"), Line("PORT", "=", "8000")>>
    /\ mcall.ret = MigrationResult(1, 1, <<>>, <<ENV_FILE>>)
    /\ get_secret_result(inst[1], keyring, fs, "api_key") = Returned(Str("abc123"))
    /\ get_secret_result(inst[1], keyring, fs, "port") = Returned(None)
    /\ get_secret_result(inst[1], mcall.pre.keyring, mcall.pre.fs, "a") = Returned(Str("v1"))
    /\ get_secret_result(inst[1], keyring, fs, "a") = Returned(Str("v1"))

\* C18: every step of the store loop attempts one more key and adds either
\* one to the migrated count or one entry to the error list, and when the
\* loop of a file is over every retained key was attempted exactly once and
\* migrated + number of errors = number of retained pairs, a store failure
\* or not.
C18_StoreLoopGoesOn ==
    /\ [][mcall.pc = "store" =>
            /\ Len(mcall'.attempted) = Len(mcall.attempted) + 1
            /\ (mcall'.migrated - mcall.migrated)
                 + (Len(mcall'.errors) - Len(mcall.errors)) = 1
            /\ mcall'.migrated >= mcall.migrated
            /\ Len(mcall'.errors) >= Len(mcall.errors)]_vars
    /\ [](mcall.pc = "file_done" =>
            LET f == Head(mcall.queue)
            IN /\ Range(mcall.attempted) = RetainedKeys(f)
               /\ Len(mcall.attempted) = Cardinality(RetainedKeys(f))
               /\ mcall.migrated + Len(mcall.errors) = Cardinality(RetainedKeys(f)))

\* the store of db_password failed, the store of api_key after it succeeded
C18_Witness ==
    /\ mcall.pc = "file_done"
    /\ mcall.attempted = <<"db_password", "api_key">>
    /\ mcall.migrated = 1
    /\ Len(mcall.errors) = 1
    /\ mcall.errors[1].name = "db_password"
    /\ get_secret_result(inst[1], keyring, fs, "api_key") = Returned(Str("abc123"))

\* C19: migrate_secrets on an existing path, file or directory, returns a
\* MigrationResult and never raises, a file that cannot be decoded or a
\* failing store write included; in a directory migration every globbed
\* file outside the skipped directories is still processed.
C19_ExistingPathNeverRaises ==
    (MReturned /\ mcall.path \in ConfigFiles \cup ConfigDirs) =>
        /\ mcall.ret.kind = "result"
        /\ mcall.isdir =>
              \A f \in Range(glob_all(mcall.path, mcall.recursive, DirPatterns)) :
                  ~InsideGit(f) => f \in Range(mcall.handled)

\* C20: when migrate_secrets on a file returned without error and is called
\* again on the same file over the store the first call left, and no
\* keyring call fails, the second call returns a result without errors, with
\* the same migrated count, and get_secret and list_secrets answer for every
\* name as they did after the first call.
C20_SecondMigrationSame ==
    (MReturned /\ mcall.path \in ConfigFiles /\ mcall.prev.valid
        /\ mcall.prev.ret.kind = "result" /\ mcall.prev.ret.errors = <<>>
        /\ ~mcall.faulted) =>
        LET m == inst[mcall.inst]
        IN /\ mcall.ret.kind = "result"
           /\ mcall.ret.errors = <<>>
           /\ mcall.ret.secrets_migrated = mcall.prev.ret.secrets_migrated
           /\ StoreView(m, mcall.post.keyring, mcall.post.fs)
                = StoreView(m, mcall.pre.keyring, mcall.pre.fs)

\* root/.env with two retained keys was migrated twice in a row
C20_Witness ==
    /\ MReturned /\ mcall.path = ENV_FILE /\ mcall.prev.valid
    /\ mcall.prev.ret = MigrationResult(2, 2, <<>>, <<ENV_FILE>>)
    /\ mcall.ret = MigrationResult(2, 2, <<>>, <<ENV_FILE>>)
    /\ get_secret_result(inst[1], keyring, fs, "db_password") = Returned(Str("s3cret"))

\* whether sub occurs in text as a run of consecutive characters
Contains(text, sub) ==
    \E i \in 1..(Len(text) - Len(sub) + 1) : SubSeq(text, i, i + Len(sub) - 1) = sub

\* the detectors a line must trigger and the severity the table gives them
Detects(pattern_type, line) ==
    CASE pattern_type = "openai_key" -> Contains(line, OPENAI_SECRET)
      [] pattern_type = "github_token" -> Contains(line, GITHUB_SECRET)
      [] pattern_type = "password" ->
            Contains(line, <<"p", "a", "s", "s", "w", "o", "r", "d", "=">>
                              \o SubSeq(OPENAI_SECRET, 1, 8))
TableOrder == <<"openai_key", "github_token", "password">>
TableSeverity(pattern_type) == IF pattern_type = "password" THEN "MEDIUM" ELSE "HIGH"
TableRank(pattern_type) == CHOOSE n \in 1..Len(TableOrder) : TableOrder[n] = pattern_type
AuditReturned == acall.path # <<>> /\ acall.e = ""

\* C22: the findings of every scanned file are, each exactly once, the
\* (line number, pattern) pairs where the pattern matches the line, with the
\* severity of the table, ordered by line and then by table order; a line
\* two patterns match has a finding for each.
C22_OneFindingPerLineAndPattern ==
    AuditReturned =>
        \A f \in acall.scanned :
            LET found == acall.findings[f]
                lines == tree[f].lines
                expected == {<<n, t, TableSeverity(t)>> :
                                <<n, t>> \in {x \in (1..Len(lines)) \X Range(TableOrder) :
                                                Detects(x[2], lines[x[1]])}}
            IN /\ {<<found[i].line_number, found[i].pattern_type, found[i].severity>> :
                        i \in 1..Len(found)} = expected
               /\ Len(found) = Cardinality(expected)
               /\ \A i \in 1..Len(found) : found[i].file_path = f
               /\ \A i, j \in 1..Len(found) :
                    i < j =>
                        \/ found[i].line_number < found[j].line_number
                        \/ /\ found[i].line_number = found[j].line_number
                           /\ TableRank(found[i].pattern_type) < TableRank(found[j].pattern_type)

\* a scanned file whose second line triggers both the openai_key and the
\* password detector: two findings for line 2, in table order
C22_Witness ==
    /\ AuditReturned
    /\ \E f \in acall.scanned :
          LET found == acall.findings[f]
          IN \E i \in 1..Len(found) :
                /\ i < Len(found)
                /\ found[i].line_number = 2 /\ found[i].pattern_type = "openai_key"
                /\ found[i + 1].line_number = 2 /\ found[i + 1].pattern_type = "password"
                /\ found[i + 1].severity = "MEDIUM"

\* C23: no context of a finding contains, in full, the text any detector
\* matched on the line of the finding, a line holding several secrets
\* included.
C23_ContextNeverShowsSecret ==
    AuditReturned =>
        \A f \in acall.scanned :
            \A i \in 1..Len(acall.findings[f]) :
                LET finding == acall.findings[f][i]
                    line == tree[f].lines[finding.line_number]
                IN \A n \in 1..Len(PATTERNS) :
                      search(PATTERNS[n], line).found =>
                          ~Contains(finding.context, search(PATTERNS[n], line).text)

\* C24: a directory scan that reaches root/.env (the directory scanned is
\* its parent, or an ancestor when recursive) selects it for scanning.
C24_DotEnvScanned ==
    (AuditReturned /\ acall.path \in ConfigDirs /\ IsUnder(ENV_FILE, acall.path)
        /\ (acall.recursive \/ Len(ENV_FILE) = Len(acall.path) + 1)) =>
        ENV_FILE \in acall.scanned

\* the sum of the per-file migrated counts
RECURSIVE SumMigrated(_)
SumMigrated(counts) ==
    IF counts = <<>> THEN 0 ELSE Head(counts).migrated + SumMigrated(Tail(counts))
Occurrences(seq, x) == Cardinality({i \in 1..Len(seq) : seq[i] = x})
DirReturned == MReturned /\ mcall.isdir /\ mcall.ret.kind = "result"
Globbed == Range(glob_all(mcall.path, mcall.recursive, DirPatterns))

\* source_files names each file once, exactly the files with a migrated
\* secret, and secrets_migrated is the sum of their counts
SourcesAndSum ==
    /\ \A f \in ConfigFiles : Occurrences(mcall.ret.source_files, f) <= 1
    /\ Range(mcall.ret.source_files)
         = {mcall.file_counts[i].file : i \in {j \in 1..Len(mcall.file_counts) :
                                                  mcall.file_counts[j].migrated > 0}}
    /\ \A f \in ConfigFiles :
          Cardinality({i \in 1..Len(mcall.file_counts) : mcall.file_counts[i].file = f}) <= 1
    /\ mcall.ret.secrets_migrated = SumMigrated(mcall.file_counts)

\* C21 as stated: in a directory migration every file that matches a glob
\* pattern is processed exactly once; source_files and secrets_migrated are
\* as above.
C21_EveryGlobbedFileOnce_Original ==
    DirReturned =>
        /\ \A f \in Globbed : Occurrences(mcall.handled, f) = 1
        /\ SourcesAndSum

\* C21: in a directory migration every file that matches a glob pattern and
\* is not inside a skipped directory is processed exactly once, a file
\* inside a skipped directory is not processed, source_files names without
\* duplicates exactly the files with at least one migrated secret, and
\* secrets_migrated is the sum of the per-file migrated counts.
C21_EveryGlobbedFileOnce ==
    DirReturned =>
        /\ \A f \in Globbed :
              Occurrences(mcall.handled, f) = IF InsideGit(f) THEN 0 ELSE 1
        /\ Range(mcall.handled) \subseteq Globbed
        /\ SourcesAndSum

\* the recursive migration of root has returned: root/.env, which matches
\* two patterns, and root/sub/app.yml each gave one secret
C21_Witness ==
    /\ DirReturned /\ mcall.path = ROOT /\ mcall.recursive
    /\ Occurrences(glob_all(ROOT, TRUE, DirPatterns), ENV_FILE) = 2
    /\ mcall.handled = <<ENV_FILE, SUB_YML_FILE>>
    /\ mcall.ret = MigrationResult(2, 2, <<>>, <<ENV_FILE, SUB_YML_FILE>>)

\* the number of per-key store failures among the errors of a result
StoreFailures(errors) == Cardinality({i \in 1..Len(errors) : errors[i].kind = "store"})

\* C29: in every MigrationResult secrets_found = secrets_migrated + the
\* number of per-key store failures, and secrets_found >= secrets_migrated.
C29_FoundCountsFailures ==
    (MReturned /\ mcall.ret.kind = "result") =>
        /\ mcall.ret.secrets_found
             = mcall.ret.secrets_migrated + StoreFailures(mcall.ret.errors)
        /\ mcall.ret.secrets_found >= mcall.ret.secrets_migrated

\* C30: in keyring mode no caller key, the reserved metadata key name
\* included, can overwrite or corrupt the index: whenever no call is in
\* progress and no backend error occurred, list_secrets is decodable and
\* every key it names has a value.
C30_IndexNeverCorrupted ==
    (AllIdle /\ faults = 0) =>
        \A i \in Inst :
            (Ready(i) /\ inst[i].use_keyring /\ backend = "ok") =>
                LET l == list_secrets_result(inst[i], keyring, fs)
                IN /\ l.kind = "list"
                   /\ \A n \in 1..Len(l.l) :
                        LET g == get_secret_result(inst[i], keyring, fs, l.l[n])
                        IN g.kind = "value" /\ g.v # None

\* -------------------------------------------------------- concurrency claims
\* caller c's last call was a store that returned without an exception
StoreReturned(c) ==
    Finished(c) /\ call[c].op = "store" /\ call[c].ret = Returned(None)

\* the data file as caller c's SecretsManager reads it now
FileNow(c) == read_fallback_data(inst[call[c].inst], fs)

\* C25: in fallback mode nothing is locked: when the last calls of two
\* callers were stores of different keys that both returned successfully,
\* the data file holds exactly the dict one of them built from its own
\* earlier read (the last writer's), with that caller's pair in it; the
\* other caller's key is there only if the last writer had read it.
C25_LastWriterWins ==
    \A c \in RaceCallers, d \in RaceCallers :
        (c # d /\ StoreReturned(c) /\ StoreReturned(d) /\ call[c].key # call[d].key) =>
            \E x \in {c, d} :
                /\ FileNow(x).ok
                /\ FileNow(x).data = call[x].data
                /\ DictGet(FileNow(x).data, call[x].key) = call[x].value

\* both stores returned successfully and the key of one of them is gone
C25_Witness ==
    \E c \in RaceCallers, d \in RaceCallers :
        /\ c # d /\ StoreReturned(c) /\ StoreReturned(d)
        /\ call[c].key # call[d].key
        /\ inst[c].cipher = inst[d].cipher
        /\ FileNow(d).ok
        /\ DictKeys(FileNow(d).data) = <<call[d].key>>

\* C27: the key file is written at most once, its content never changes
\* once it exists, and every ready fallback instance uses the key that is in
\* the key file.
C27_KeyFileWrittenOnce ==
    /\ [][fs.key.exists => (fs'.key.exists /\ fs'.key.bytes = fs.key.bytes)]_vars
    /\ [](\A i \in Inst :
            (Ready(i) /\ ~inst[i].use_keyring) => inst[i].cipher = fs.key.bytes)

\* C26: in keyring mode, in every reachable state (also between the value
\* write or delete and the index write of one operation), every key the
\* index names has a value in the keystore.  Reserved keys and backend
\* errors are left out.
C26_IndexConsistentInEveryState ==
    (~reserved_used /\ faults = 0) =>
        \A i \in Inst :
            (Ready(i) /\ inst[i].use_keyring /\ backend = "ok") =>
                LET l == list_secrets_result(inst[i], keyring, fs)
                IN /\ l.kind = "list"
                   /\ \A n \in 1..Len(l.l) : keyring[l.l[n]] # None

\* what get_secret(MASTER_KEY_NAME) returns on the store of manager e now
MasterKeyNow(e) == get_secret_result(StoreOf(e), keyring, fs, MASTER_KEY_NAME)

\* C28: lazy creation of the master key is a check followed by a separate
\* store.  Every _ensure_master_key store that returns leaves the key it
\* generated itself in the store, whatever was stored since its check, and
\* a ciphertext an encrypt_value returned decrypts to its plaintext exactly
\* while the store still holds the key it was made under.
C28_LaterStoreOverwrites ==
    /\ [][\A c \in RaceCallers :
            (ecall[c].pc = "ensure_store" /\ ecall'[c].pc = "idle"
                /\ ecall'[c].ret = EReturnedNone) =>
                get_secret_result(StoreOf(ecall[c].em), keyring', fs', MASTER_KEY_NAME)
                    = Returned(FernetKeyText(ecall[c].newkey))]_vars
    /\ [](\A n \in 1..Len(produced) :
            LET e == produced[n].em
                made == FernetKeyText(produced[n].ct.key)
            IN (decrypt_value_result(MasterKeyNow(e), produced[n].ct)
                    = EReturned(Plain(produced[n].p)))
               <=> MasterKeyNow(e) = Returned(made))

\* both constructions returned, each after generating a key, and a
\* ciphertext made under the first stored key no longer decrypts
C28_Witness ==
    /\ \A c \in RaceCallers :
          /\ ecall[c].pc = "idle" /\ EmReady(c) /\ em[c].secrets = 1
    /\ keygen = 2
    /\ \E n \in 1..Len(produced) :
          /\ MasterKeyNow(produced[n].em) # Returned(FernetKeyText(produced[n].ct.key))
          /\ decrypt_value_result(MasterKeyNow(produced[n].em), produced[n].ct)
                = ERaised("InvalidToken")

====
